---------------------------- MODULE Spec2Model ----------------------------
(***************************************************************************)
(* Model of the order reconciliation and pricing pipeline                  *)
(* (src/integrate_data/__init__.py): extraction, cleaning, merge, price    *)
(* fallback, financial computation and the transactional load of the four  *)
(* derived tables unified_data, sales_agg, stock_snapshot, order_errors.   *)
(*                                                                         *)
(* Conventions                                                             *)
(*  - A number, and a pandas cell that may be missing, is a record         *)
(*    [na, v, d]: NA is the missing value (None / NaN / pd.NA), N(x) the   *)
(*    integer x and Q(n, d) the fraction n / d in lowest terms (d > 0).    *)
(*    The arithmetic is exact: /1.20, *0.20, *(20/120) and the mean of two *)
(*    values are fractions; the rounding of the binary floating point      *)
(*    numbers of the code is outside the model.  The quantity of an order  *)
(*    row, which the code casts to int, is a plain integer.                *)
(*  - A SKU is a sequence of one-character strings.  The normalized SKU    *)
(*    None is the empty sequence (normalize_sku never returns "").         *)
(*  - A DataFrame is a sequence of row records together with the set of    *)
(*    its columns where the code tests for a column.                       *)
(*  - The e-mail column is carried through the pipeline unchanged and is   *)
(*    left out of the rows.                                                *)
(***************************************************************************)
EXTENDS Integers, Sequences, FiniteSets, TLC

(***************************************************************************)
(* Bounds of the model                                                     *)
(***************************************************************************)
\* the number of versions of the sources in Spec
MaxVersions == 2

\* rows of the stock workbook in SpecData
MaxStockRows == 2

\* rows of the view retry_enriched in SpecData
MaxRetryRows == 1

\* rows of the frame given to calculate_financials in SpecFin
MaxFinRows == 2

\* the most headers a sheet given to a column mapper has
MaxHeaders == 4

(***************************************************************************)
(* Missing values and numeric helpers (pandas semantics)                   *)
(***************************************************************************)
NA == [na |-> TRUE, v |-> 0, d |-> 1]

N(x) == [na |-> FALSE, v |-> x, d |-> 1]

RECURSIVE Gcd(_, _)
\* the greatest common divisor of two naturals
Gcd(a, b) == IF b = 0 THEN a ELSE Gcd(b, a % b)

\* the number n / d, for d > 0, in lowest terms
Q(n, d) ==
    LET g == Gcd(IF n < 0 THEN -n ELSE n, d)
    IN  [na |-> FALSE, v |-> n \div g, d |-> d \div g]

\* x * y, x + y, x - y and x < y on numbers; a missing operand gives NaN
mul(x, y) == IF x.na \/ y.na THEN NA ELSE Q(x.v * y.v, x.d * y.d)

add(x, y) == IF x.na \/ y.na THEN NA ELSE Q(x.v * y.d + y.v * x.d, x.d * y.d)

sub(x, y) == IF x.na \/ y.na THEN NA ELSE Q(x.v * y.d - y.v * x.d, x.d * y.d)

less(x, y) == x.v * y.d < y.v * x.d

\* Series.fillna(other): keep the value, take the other one where missing
fillna(x, y) == IF x.na THEN y ELSE x

\* Series.mask(s <= 0): a non-missing value <= 0 becomes missing
mask_nonpos(x) == IF (~x.na) /\ x.v <= 0 THEN NA ELSE x

\* x / 1.20 (NaN stays NaN)
div120(x) == IF x.na THEN NA ELSE Q(x.v * 100, x.d * 120)

RECURSIVE SeqSum(_)
SeqSum(s) == IF s = <<>> THEN N(0) ELSE add(Head(s), SeqSum(Tail(s)))

RECURSIVE SelectSeqBy(_, _)
\* the subsequence of s at the indices (ascending) of the set idx
SelectSeqBy(s, idx) ==
    IF idx = {} THEN <<>>
    ELSE LET i == CHOOSE j \in idx : \A k \in idx : j <= k
         IN  <<s[i]>> \o SelectSeqBy(s, idx \ {i})

\* the non-missing values of a sequence of cells
NotNaVals(cells) == SelectSeqBy(cells, {i \in DOMAIN cells : ~cells[i].na})

\* groupby(...).sum(): missing cells are skipped, an all-missing group sums to 0
agg_sum(cells) == SeqSum(NotNaVals(cells))

\* the k-th smallest element (1-based) of a non-empty sequence of numbers
KthSmallest(vals, k) ==
    CHOOSE x \in {vals[i] : i \in DOMAIN vals} :
        /\ Cardinality({i \in DOMAIN vals : less(vals[i], x)}) < k
        /\ k <= Cardinality({i \in DOMAIN vals : ~less(x, vals[i])})

\* groupby(...).median(): missing cells are skipped, an all-missing group is NaN;
\* an even count gives the mean of the two middle values
agg_median(cells) ==
    LET vals == NotNaVals(cells)
        n    == Len(vals)
    IN  IF n = 0 THEN NA
        ELSE IF n % 2 = 1 THEN KthSmallest(vals, (n + 1) \div 2)
        ELSE mul(add(KthSmallest(vals, n \div 2), KthSmallest(vals, n \div 2 + 1)),
                 Q(1, 2))

(***************************************************************************)
(* SKU normalisation                                                       *)
(***************************************************************************)
NoSku == <<>>

\* a text cell without a value: the float NaN of an empty workbook cell
NaNCell == <<"NaN">>

\* pd.NA, which _first_notna returns for a row whose cells are all missing
PdNA == <<"<NA>">>

\* the ASCII letters, upper case and lower case, and the digits
Ascii ==
    [upper |-> <<"A", "B", "C", "D", "E", "F", "G", "H", "I", "J", "K", "L", "M",
                 "N", "O", "P", "Q", "R", "S", "T", "U", "V", "W", "X", "Y", "Z">>,
     lower |-> <<"a", "b", "c", "d", "e", "f", "g", "h", "i", "j", "k", "l", "m",
                 "n", "o", "p", "q", "r", "s", "t", "u", "v", "w", "x", "y", "z">>,
     digits |-> {"0", "1", "2", "3", "4", "5", "6", "7", "8", "9"}]

\* the upper case of every lower-case letter
UpperOf ==
    [c \in {Ascii.lower[i] : i \in 1..26} |->
        Ascii.upper[CHOOSE i \in 1..26 : Ascii.lower[i] = c]]

\* the lower case of every upper-case letter
LowerOf ==
    [c \in {Ascii.upper[i] : i \in 1..26} |->
        Ascii.lower[CHOOSE i \in 1..26 : Ascii.upper[i] = c]]

\* str.lower() on one character
lower(c) == IF c \in DOMAIN LowerOf THEN LowerOf[c] ELSE c

\* [a-zA-Z0-9]
IsAlnum(c) == c \in Ascii.digits \cup DOMAIN LowerOf \cup DOMAIN UpperOf

RECURSIVE MapSeq(_, _)
\* the sequence of Op(s[i]) over the elements of s, in order
MapSeq(Op(_), s) ==
    IF s = <<>> THEN <<>> ELSE <<Op(Head(s))>> \o MapSeq(Op, Tail(s))

\* str.upper() on one character
upper(c) == IF c \in DOMAIN UpperOf THEN UpperOf[c] ELSE c

\* the characters of SKU_KEEP = [A-Z0-9]+, in the order of their code points
KeptOrder == <<"0", "1", "2", "3", "4", "5", "6", "7", "8", "9">> \o Ascii.upper

\* the place of each of them in that order
OrdOf ==
    [c \in {KeptOrder[i] : i \in DOMAIN KeptOrder} |->
        CHOOSE i \in DOMAIN KeptOrder : KeptOrder[i] = c]

IsKept(c) == c \in DOMAIN OrdOf

IsSpace(c) == c = " "

RECURSIVE KeepChars(_)
KeepChars(s) ==
    IF s = <<>> THEN <<>>
    ELSE (IF IsKept(upper(Head(s))) THEN <<upper(Head(s))>> ELSE <<>>)
         \o KeepChars(Tail(s))

\* the text str(NaN) that astype(str) and str() give for a missing cell
NanText == <<"n", "a", "n">>

\* str(x): "nan" for NaN, "<NA>" for pd.NA, the text itself otherwise
str_of(x) ==
    IF x = NaNCell THEN NanText
    ELSE IF x = PdNA THEN <<"<", "N", "A", ">">>
    ELSE x

\* normalize_sku: str, NFKC, strip, upper, keep [A-Z0-9]; "" becomes None
\* (None and "" are both the empty sequence)
normalize_sku(x) == KeepChars(str_of(x))

RECURSIVE lstrip(_)
lstrip(s) == IF s # <<>> /\ IsSpace(Head(s)) THEN lstrip(Tail(s)) ELSE s

RECURSIVE FirstWord(_)
FirstWord(s) ==
    IF s = <<>> \/ IsSpace(Head(s)) THEN <<>>
    ELSE <<Head(s)>> \o FirstWord(Tail(s))

\* mutant of first_token: the whole text of the cell is kept
first_token_whole(s) == IF lstrip(str_of(s)) = <<>> THEN NaNCell ELSE str_of(s)

\* .astype(str).str.strip().str.split().str[0]: the first whitespace-separated
\* token of the text of the cell (an empty cell has the text "nan"); a cell of
\* blanks has no token and becomes NaN
first_token(s) ==
    LET w == FirstWord(lstrip(str_of(s)))
    IN  IF w = <<>> THEN NaNCell ELSE w

\* lexicographic order on SKUs, used for the sorted group keys of groupby
Ord(c) == IF IsKept(c) THEN OrdOf[c] ELSE 0

RECURSIVE SkuLess(_, _)
SkuLess(a, b) ==
    IF b = <<>> THEN FALSE
    ELSE IF a = <<>> THEN TRUE
    ELSE IF Head(a) # Head(b) THEN Ord(Head(a)) < Ord(Head(b))
    ELSE SkuLess(Tail(a), Tail(b))

RECURSIVE SortedKeys(_)
SortedKeys(S) ==
    IF S = {} THEN <<>>
    ELSE LET m == CHOOSE a \in S : \A b \in S : a = b \/ SkuLess(a, b)
         IN  <<m>> \o SortedKeys(S \ {m})

(***************************************************************************)
(* Extraction and cleaning                                                 *)
(***************************************************************************)
StockTargets == {"sku", "stock_qty", "purchase_value", "retail_value"}

SalesTargets == {"sku", "quantity", "net_wo_tax", "net_w_tax"}

RECURSIVE rstrip(_)
rstrip(s) ==
    IF s # <<>> /\ IsSpace(s[Len(s)]) THEN rstrip(SubSeq(s, 1, Len(s) - 1)) ELSE s

\* str.strip()
strip(s) == rstrip(lstrip(s))

\* extract_retry_table on one row of the view retry_enriched: quantity coerced
\* to int (missing -> 0), negated for a return, price_ht_payload derived from
\* final_price_ttc, else original_price_ttc, divided by 1.20
extract_retry_row(v) ==
    LET q   == fillna(v.quantity, N(0)).v
        ttc == fillna(v.final_price_ttc, v.original_price_ttc)
    IN  [id |-> v.id,
         sku |-> strip(v.sku),
         quantity |-> IF v.order_type = "return" THEN -q ELSE q,
         order_type |-> v.order_type,
         price_ttc_payload |-> ttc,
         price_ht_payload |-> div120(ttc),
         source |-> "middleware"]

extract_retry_table(view) == [i \in DOMAIN view |-> extract_retry_row(view[i])]

\* clean_and_normalize on the retry frame: the SKU is normalized, the quantity
\* is already an int
clean_retry(df) == [i \in DOMAIN df |-> [df[i] EXCEPT !.sku = normalize_sku(@)]]

\* a column of a frame: the cells of the rows, missing when the frame has no
\* such column
Col(df, c) == [i \in DOMAIN df.rows |-> IF c \in df.cols THEN df.rows[i][c] ELSE NA]

\* the group keys of groupby("sku"): the distinct non-null SKUs, sorted
GroupKeys(rows) == SortedKeys({rows[i].sku : i \in DOMAIN rows} \ {NoSku})

\* the cells of column c in the rows of group k
GroupCells(df, c, k) ==
    LET idx == {i \in DOMAIN df.rows : df.rows[i].sku = k}
    IN  SelectSeqBy(Col(df, c), idx)

(***************************************************************************)
(* main: sales-derived price, merge, price fallback                        *)
(***************************************************************************)
\* main, "Prix HT par SKU depuis Ventes": per SKU the median of net_wo_tax,
\* else the median of net_w_tax divided by 1.20; an empty frame when the sheet
\* has no sku column or no price column
sales_price(ventes) ==
    IF "sku" \in ventes.cols /\ ({"net_wo_tax", "net_w_tax"} \cap ventes.cols) # {}
    THEN LET keys == GroupKeys(ventes.rows)
         IN  [i \in DOMAIN keys |->
                [sku |-> keys[i],
                 retail_from_sales |->
                    fillna(agg_median(GroupCells(ventes, "net_wo_tax", keys[i])),
                           div120(agg_median(GroupCells(ventes, "net_w_tax", keys[i]))))]]
    ELSE <<>>

\* the rows of a reference frame whose key equals k; pandas matches a null key
\* with a null key
Matches(ref, k) == SelectSeqBy(ref, {i \in DOMAIN ref : ref[i].sku = k})

\* retry_df.merge(stock_df, on="sku", how="left", indicator=True) for one left
\* row: one output row per matching stock row, or one row with missing stock
\* columns
merge_stock_row(row, stock) ==
    LET m == Matches(stock.rows, row.sku)
        StockCell(s, c) == IF c \in stock.cols THEN s[c] ELSE NA
    IN  IF m = <<>>
        THEN << row @@
                [stock_qty |-> NA, purchase_value |-> NA, retail_value |-> NA,
                 merge_stock |-> "left_only"] >>
        ELSE [j \in DOMAIN m |->
                row @@ [stock_qty |-> StockCell(m[j], "stock_qty"),
                        purchase_value |-> StockCell(m[j], "purchase_value"),
                        retail_value |-> StockCell(m[j], "retail_value"),
                        merge_stock |-> "both"]]

RECURSIVE FlatMap(_, _, _)
\* the concatenation of Op(s[i], arg) over the rows of s, in order
FlatMap(Op(_, _), s, arg) ==
    IF s = <<>> THEN <<>> ELSE Op(Head(s), arg) \o FlatMap(Op, Tail(s), arg)

merge_stock(retry, stock) == FlatMap(merge_stock_row, retry, stock)

\* merged_df.merge(sales_price[["sku","retail_from_sales"]], on="sku", how="left");
\* the keys of sales_price are distinct and non-null
merge_sales_row(row, sp) ==
    LET m == Matches(sp, row.sku)
    IN  row @@ [retail_from_sales |-> IF m = <<>> THEN NA ELSE m[1].retail_from_sales]

\* the exception main raises between the cleaning and the load, "none" when it
\* raises none:
\*  - merge on "sku" with a stock frame that has no sku column: KeyError
\*  - fillna(merged_df.get(c)) where column c does not exist: fillna(None)
\*    raises ValueError
transform_error(stock, ventes) ==
    IF "sku" \notin stock.cols THEN "KeyError"
    ELSE IF "retail_value" \in stock.cols /\ sales_price(ventes) = <<>> THEN "ValueError"
    ELSE IF "purchase_value" \notin stock.cols THEN "ValueError"
    ELSE "none"

\* main, "retail_value final" and "Fallbacks supplementaires": the first
\* non-missing value of stock retail_value, retail_from_sales,
\* price_ht_payload, purchase_value
resolve_retail_value(row) ==
    fillna(fillna(fillna(row.retail_value, row.retail_from_sales),
                  row.price_ht_payload),
           row.purchase_value)

(***************************************************************************)
(* Business rules and financials                                           *)
(***************************************************************************)
\* main line 673: the SKU is valid when the stock merge found a match
is_valid_sku_of(row) == row.merge_stock = "both"

\* mutant of apply_business_rules_row: the quantity is checked before the SKU
apply_business_rules_qty_first(row) ==
    LET vq == row.quantity > 0
    IN  row @@ [is_valid_qty |-> vq,
                is_valid |-> row.is_valid_sku /\ vq,
                error_reason |-> IF ~vq THEN "Invalid Quantity"
                                 ELSE IF ~row.is_valid_sku THEN "Invalid SKU"
                                 ELSE "None"]

\* apply_business_rules on one row (is_valid_sku is already a column); the
\* error_reason None is the string "None"
apply_business_rules_row(row) ==
    LET vq == row.quantity > 0
    IN  row @@ [is_valid_qty |-> vq,
                is_valid |-> row.is_valid_sku /\ vq,
                error_reason |-> IF ~row.is_valid_sku THEN "Invalid SKU"
                                 ELSE IF ~vq THEN "Invalid Quantity"
                                 ELSE "None"]

\* mutant of ht_available: every row must have a price
ht_available_all(rows) ==
    \A i \in DOMAIN rows : (~rows[i].retail_value.na) /\ rows[i].retail_value.v # 0

\* calculate_financials line 158: the tax-exclusive column counts as available
\* when some row of the frame has a non-missing, non-zero retail_value
ht_available(rows) ==
    \E i \in DOMAIN rows : (~rows[i].retail_value.na) /\ rows[i].retail_value.v # 0

\* calculate_financials on one row of a frame; has_ttc says whether the frame
\* has a retail_value_ttc column
calculate_financials_row(row, rows, has_ttc) ==
    IF ht_available(rows)
    THEN LET ht == mul(N(row.quantity), fillna(row.retail_value, N(0)))
             tva == mul(ht, Q(20, 100))
         IN  row @@ [total_ht |-> ht, tva |-> tva, total_ttc |-> add(ht, tva)]
    ELSE IF has_ttc
    THEN LET ttc == mul(N(row.quantity), fillna(row.retail_value_ttc, N(0)))
             tva == mul(ttc, Q(20, 120))
         IN  row @@ [total_ttc |-> ttc, tva |-> tva, total_ht |-> sub(ttc, tva)]
    ELSE row @@ [total_ht |-> N(0), tva |-> N(0), total_ttc |-> N(0)]

calculate_financials(rows, has_ttc) ==
    [i \in DOMAIN rows |-> calculate_financials_row(rows[i], rows, has_ttc)]

\* main lines 640-677 on the cleaned frames, when transform_error is "none":
\* merge with stock, merge with the sales price, price fallback, validity
\* flags, financials.  The columns the code drops (_merge_stock,
\* retail_from_sales) and the stock price before the fallback (stock_retail)
\* stay in the rows of the model for the properties; no load reads them.
merged_frame(retry, stock, ventes) ==
    LET sp == sales_price(ventes)
        m1 == merge_stock(retry, stock)
        m2 == [i \in DOMAIN m1 |-> merge_sales_row(m1[i], sp)]
        m3 == [i \in DOMAIN m2 |->
                 [m2[i] EXCEPT !.retail_value = resolve_retail_value(m2[i])]
                 @@ [stock_retail |-> m2[i].retail_value,
                     is_valid_sku |-> is_valid_sku_of(m2[i])]]
        m4 == [i \in DOMAIN m3 |-> apply_business_rules_row(m3[i])]
    IN  calculate_financials(m4, FALSE)

(***************************************************************************)
(* The rows each load inserts                                              *)
(***************************************************************************)
Tables == {"unified_data", "sales_agg", "stock_snapshot", "order_errors"}

\* main lines 688-695: the order of the four loads
LoadOrder == <<"unified_data", "sales_agg", "stock_snapshot", "order_errors">>

\* load_to_postgres: numeric columns filled with 0, sku None stored as ""
unified_rows(merged) ==
    [i \in DOMAIN merged |->
        [sku |-> merged[i].sku,
         quantity |-> merged[i].quantity,
         source |-> merged[i].source,
         stock_qty |-> fillna(merged[i].stock_qty, N(0)),
         purchase_value |-> fillna(merged[i].purchase_value, N(0)),
         retail_value |-> fillna(merged[i].retail_value, N(0)),
         total_ht |-> merged[i].total_ht,
         tva |-> merged[i].tva,
         total_ttc |-> merged[i].total_ttc,
         is_valid |-> merged[i].is_valid,
         error_reason |-> merged[i].error_reason]]

\* load_table_sales_agg line 398: the load returns at once without a sku column
sales_agg_skipped(ventes) == "sku" \notin ventes.cols

\* load_table_sales_agg lines 414-415: net_wo_tax, else net_w_tax / 1.20
price_ht_row(row) == fillna(row.net_wo_tax, div120(row.net_w_tax))

\* load_table_sales_agg lines 400-441: one row per SKU with the summed
\* quantity, the summed revenue and the median row price (NaN is stored as
\* NaN: "NaN or 0" is NaN)
sales_agg_rows(ventes) ==
    LET full == [cols |-> SalesTargets \cup {"price_ht_row", "revenue_ht_row"},
                 rows |-> [i \in DOMAIN ventes.rows |->
                    LET r == ventes.rows[i]
                        w == [sku |-> r.sku,
                              quantity |-> IF "quantity" \in ventes.cols
                                           THEN fillna(r.quantity, N(0)) ELSE N(0),
                              net_wo_tax |-> IF "net_wo_tax" \in ventes.cols
                                             THEN r.net_wo_tax ELSE NA,
                              net_w_tax |-> IF "net_w_tax" \in ventes.cols
                                            THEN r.net_w_tax ELSE NA]
                    IN  w @@ [price_ht_row |-> price_ht_row(w),
                              revenue_ht_row |->
                                 mul(w.quantity, fillna(price_ht_row(w), N(0)))]]]
        keys == GroupKeys(full.rows)
    IN  [i \in DOMAIN keys |->
           [sku |-> keys[i],
            qty_sold |-> agg_sum(GroupCells(full, "quantity", keys[i])),
            revenue_ht |-> agg_sum(GroupCells(full, "revenue_ht_row", keys[i])),
            price_ht_from_sales |-> agg_median(GroupCells(full, "price_ht_row", keys[i]))]]

\* load_table_stock_snapshot lines 280-298: the exception the aggregation
\* raises, "none" when it raises none ("return" stands for the early return):
\* df.get("stock_qty", 0).fillna(0) on a frame without stock_qty is
\* (0).fillna: AttributeError; agg over a missing column: KeyError
stock_snapshot_error(stock) ==
    IF "sku" \notin stock.cols THEN "return"
    ELSE IF "stock_qty" \notin stock.cols THEN "AttributeError"
    ELSE IF {"purchase_value", "retail_value"} \ stock.cols # {} THEN "KeyError"
    ELSE "none"

\* mutant of price_ht_priority: the values <= 0 are not masked before the
\* coalesce
price_ht_priority_unmasked(retail, sales, purchase) ==
    fillna(fillna(fillna(retail, sales), purchase), N(0))

\* load_table_stock_snapshot lines 315-327: the first non-missing value of
\* retail_value, price_ht_from_sales, purchase_value after the values <= 0
\* were masked, else 0
price_ht_priority(retail, sales, purchase) ==
    fillna(fillna(fillna(mask_nonpos(retail), mask_nonpos(sales)),
                  mask_nonpos(purchase)),
           N(0))

\* mutant of stock_value_ht: the stock is valued at the stock-sheet retail
\* price
stock_value_retail(out) == mul(fillna(out.retail_value, N(0)), out.stock_qty)

\* load_table_stock_snapshot line 330: price_ht_priority * stock_qty on a row
\* of the frame out
stock_value_ht(out) == mul(out.price_ht_priority, out.stock_qty)

\* mutant of stock_agg: the first row of each SKU is kept (drop_duplicates)
stock_agg_first(stock) ==
    LET keys == GroupKeys(stock.rows)
    IN  [i \in DOMAIN keys |->
           LET m == Matches(stock.rows, keys[i])
           IN  [sku |-> keys[i],
                stock_qty |-> IF fillna(m[1].stock_qty, N(0)).v < 0 THEN N(0)
                              ELSE fillna(m[1].stock_qty, N(0)),
                purchase_value |-> m[1].purchase_value,
                retail_value |-> m[1].retail_value]]

\* load_table_stock_snapshot lines 283-298: stock rows with a non-null SKU,
\* quantity missing -> 0 and negative -> 0, grouped by SKU: quantities summed,
\* prices by median
stock_agg(stock) ==
    LET df == [cols |-> stock.cols,
               rows |-> [i \in DOMAIN stock.rows |->
                  [stock.rows[i] EXCEPT !.stock_qty =
                      IF fillna(@, N(0)).v < 0 THEN N(0) ELSE fillna(@, N(0))]]]
        keys == GroupKeys(df.rows)
    IN  [i \in DOMAIN keys |->
           [sku |-> keys[i],
            stock_qty |-> agg_sum(GroupCells(df, "stock_qty", keys[i])),
            purchase_value |-> agg_median(GroupCells(df, "purchase_value", keys[i])),
            retail_value |-> agg_median(GroupCells(df, "retail_value", keys[i]))]]

\* load_table_stock_snapshot lines 308-330 on one aggregated row: left join
\* with the rows read from sales_agg, values <= 0 masked, priority price,
\* valuation
snapshot_out_row(agg, sales_agg) ==
    LET m    == Matches(sales_agg, agg.sku)
        ps   == IF m = <<>> THEN NA ELSE m[1].price_ht_from_sales
        out1 == [sku |-> agg.sku,
                 stock_qty |-> fillna(agg.stock_qty, N(0)),
                 purchase_value |-> mask_nonpos(agg.purchase_value),
                 retail_value |-> mask_nonpos(agg.retail_value),
                 price_ht_from_sales |-> mask_nonpos(ps),
                 price_ht_priority |->
                     price_ht_priority(agg.retail_value, ps, agg.purchase_value)]
    IN  out1 @@ [stock_value_ht |-> stock_value_ht(out1)]

\* load_table_stock_snapshot lines 332-379: every numeric column of out with
\* missing -> 0, as the rows to insert
stock_snapshot_rows(stock, sales_agg) ==
    LET aggs == stock_agg(stock)
    IN  [i \in DOMAIN aggs |->
          LET out == snapshot_out_row(aggs[i], sales_agg)
          IN  [sku |-> out.sku,
               stock_qty |-> fillna(out.stock_qty, N(0)),
               purchase_value |-> fillna(out.purchase_value, N(0)),
               retail_value |-> fillna(out.retail_value, N(0)),
               price_ht_from_sales |-> fillna(out.price_ht_from_sales, N(0)),
               price_ht_priority |-> fillna(out.price_ht_priority, N(0)),
               stock_value_ht |-> fillna(out.stock_value_ht, N(0))]]

\* mutant of order_error_rows: only the rows whose quantity is <= 0 are kept
order_error_rows_qty(merged) ==
    LET err == SelectSeqBy(merged, {i \in DOMAIN merged : merged[i].quantity <= 0})
    IN  [i \in DOMAIN err |->
           [sku |-> err[i].sku,
            quantity |-> err[i].quantity,
            error_reason |-> IF err[i].error_reason = "None" THEN ""
                             ELSE err[i].error_reason]]

\* load_table_order_errors lines 451-470: the rows that are not valid or whose
\* quantity is <= 0
order_error_rows(merged) ==
    LET err == SelectSeqBy(merged, {i \in DOMAIN merged :
                   (~merged[i].is_valid) \/ merged[i].quantity <= 0})
    IN  [i \in DOMAIN err |->
           [sku |-> err[i].sku,
            quantity |-> err[i].quantity,
            error_reason |-> IF err[i].error_reason = "None" THEN ""
                             ELSE err[i].error_reason]]

(***************************************************************************)
(* Column mappers: _canon, guess_stock_columns, guess_sales_columns        *)
(* A header is a sequence of one-character strings; the precomposed letter *)
(* e with an acute accent is the string "e_acute", which NFKD splits into  *)
(* "e" and the combining mark "combining_acute".                           *)
(***************************************************************************)
RECURSIVE strip_accents(_)
\* _canon lines 505-506: NFKD splits an accented letter into the letter and
\* its combining mark, then the combining marks are dropped
strip_accents(s) ==
    LET nfkd(c) == IF c = "e_acute" THEN <<"e", "combining_acute">> ELSE <<c>>
        combining(c) == c = "combining_acute"
    IN  IF s = <<>> THEN <<>>
        ELSE SelectSeq(nfkd(Head(s)), LAMBDA ch : ~combining(ch))
             \o strip_accents(Tail(s))

RECURSIVE skip_non_alnum(_)
skip_non_alnum(s) ==
    IF s # <<>> /\ ~IsAlnum(Head(s)) THEN skip_non_alnum(Tail(s)) ELSE s

RECURSIVE collapse_non_alnum(_)
\* re.sub(r"[^a-zA-Z0-9]+", " ", s): every run of other characters becomes
\* one space
collapse_non_alnum(s) ==
    IF s = <<>> THEN <<>>
    ELSE IF IsAlnum(Head(s)) THEN <<Head(s)>> \o collapse_non_alnum(Tail(s))
    ELSE <<" ">> \o collapse_non_alnum(skip_non_alnum(Tail(s)))

\* _canon: accents stripped, non-alphanumerics collapsed to one space, strip,
\* lower
canon(s) ==
    LET t == strip(collapse_non_alnum(strip_accents(s)))
    IN  [i \in DOMAIN t |-> lower(t[i])]

\* the Python test "w in c" on two texts
Contains(c, w) ==
    \E i \in 1..(Len(c) - Len(w) + 1) : SubSeq(c, i, i + Len(w) - 1) = w

\* guess_stock_columns lines 516-523: the keyword rule of target t on the
\* canonical header c
StockRule(t, c) ==
    CASE t = "sku" ->
          Contains(c, <<"i", "t", "e", "m">>) \/ Contains(c, <<"c", "o", "d", "e">>) \/ c = <<"s", "k", "u">>
      [] t = "stock_qty" ->
          /\ (Contains(c, <<"q", "t", "e">>) \/ Contains(c, <<"q", "u", "a", "n", "t", "i", "t", "e">>) \/ Contains(c, <<"s", "t", "o", "c", "k">>))
          /\ (Contains(c, <<"i", "m", "a", "g", "e">>) \/ Contains(c, <<"i", "m", "g">>) \/ Contains(c, <<"q", "t", "y">>))
      [] t = "purchase_value" ->
          /\ (Contains(c, <<"v", "a", "l", "o">>) \/ Contains(c, <<"v", "a", "l", "u", "e">>) \/ Contains(c, <<"p", "r", "i", "c", "e">>))
          /\ (Contains(c, <<"p", "a">>)
             \/ Contains(c, <<"p", "u", "r", "c", "h", "a", "s", "e">>)
             \/ Contains(c, <<"b", "u", "y">>)
             \/ Contains(c, <<"c", "o", "s", "t">>))
      [] t = "retail_value" ->
          /\ (Contains(c, <<"v", "a", "l", "o">>) \/ Contains(c, <<"v", "a", "l", "u", "e">>) \/ Contains(c, <<"p", "r", "i", "c", "e">>))
          /\ (Contains(c, <<"p", "r">>)
             \/ Contains(c, <<"r", "e", "t", "a", "i", "l">>)
             \/ Contains(c, <<"s", "e", "l", "l">>)
             \/ Contains(c, <<"s", "a", "l", "e">>))

\* the order in which guess_stock_columns fills the mapping (lines 525-532)
StockTargetOrder == <<"sku", "stock_qty", "purchase_value", "retail_value">>

\* sku_col, qty_col, pa_col, pr_col: the index of the first header whose
\* canonical form satisfies the rule of target t, 0 (None) when none does
first_match(canons, t) ==
    LET sat == {i \in DOMAIN canons : StockRule(t, canons[i])}
    IN  IF sat = {} THEN 0 ELSE CHOOSE i \in sat : \A j \in sat : i <= j

\* guess_stock_columns: the mapping from header (by its index) to canonical
\* name.  The mapping is a dict keyed by the header: when one header is the
\* first match of several targets, the target assigned last stays.
guess_stock_columns(headers) ==
    LET canons == MapSeq(canon, headers)
        found  == MapSeq(LAMBDA t : first_match(canons, t), StockTargetOrder)
        cols   == {found[k] : k \in 1..4} \ {0}
    IN  [i \in cols |->
            StockTargetOrder[CHOOSE k \in 1..4 :
                /\ found[k] = i
                /\ \A m \in 1..4 : found[m] = i => m <= k]]

\* guess_sales_columns lines 541-548: the keyword rule of target t on the
\* canonical header c
SalesRule(t, c) ==
    CASE t = "sku" -> Contains(c, <<"i", "t", "e", "m">>) /\ Contains(c, <<"c", "o", "d", "e">>)
      [] t = "quantity" -> c \in {<<"q", "t", "y">>, <<"q", "u", "a", "n", "t", "i", "t", "y">>, <<"q", "t", "e">>}
      [] t = "net_wo_tax" ->
          /\ Contains(c, <<"n", "e", "t">>) /\ Contains(c, <<"t", "a", "x">>)
          /\ (Contains(c, <<"w", "o">>)
             \/ Contains(c, <<"w", "i", "t", "h", "o", "u", "t">>)
             \/ Contains(c, <<"s", "a", "n", "s">>)
             \/ Contains(c, <<"w", "_", "o">>))
      [] t = "net_w_tax" -> Contains(c, <<"n", "e", "t">>) /\ Contains(c, <<"t", "a", "x">>)

\* the if / elif chain of guess_sales_columns on one canonical header
sales_target(c) ==
    IF SalesRule("sku", c) THEN "sku"
    ELSE IF SalesRule("quantity", c) THEN "quantity"
    ELSE IF SalesRule("net_wo_tax", c) THEN "net_wo_tax"
    ELSE IF SalesRule("net_w_tax", c) THEN "net_w_tax"
    ELSE "none"

\* guess_sales_columns: every header whose chain gives a target is mapped
guess_sales_columns(headers) ==
    LET targets == MapSeq(LAMBDA h : sales_target(canon(h)), headers)
        cols    == {i \in DOMAIN targets : targets[i] # "none"}
    IN  [i \in cols |-> targets[i]]

(***************************************************************************)
(* Workbooks: extraction, renaming and cleaning of a sheet                 *)
(* A workbook, and the frame read from it, is the pair of its header texts *)
(* in column order and of its rows, one tuple of cells per row.  A cleaned *)
(* frame is [cols, rows]: the canonical columns it has and one record per  *)
(* row, in which the cell of an absent column is missing.                  *)
(***************************************************************************)
Frame(headers, rows) == <<headers, rows>>

Headers(df) == df[1]

Rows(df) == df[2]

TargetsOf(kind) == IF kind = "stock" THEN StockTargets ELSE SalesTargets

\* the canonical column names as texts
TargetText ==
    [sku |-> <<"s", "k", "u">>,
     stock_qty |-> <<"s", "t", "o", "c", "k", "_", "q", "t", "y">>,
     purchase_value |-> <<"p", "u", "r", "c", "h", "a", "s", "e", "_", "v", "a", "l", "u", "e">>,
     retail_value |-> <<"r", "e", "t", "a", "i", "l", "_", "v", "a", "l", "u", "e">>,
     quantity |-> <<"q", "u", "a", "n", "t", "i", "t", "y">>,
     net_wo_tax |-> <<"n", "e", "t", "_", "w", "o", "_", "t", "a", "x">>,
     net_w_tax |-> <<"n", "e", "t", "_", "w", "_", "t", "a", "x">>]

\* the column name "source"
SourceHeader == <<"s", "o", "u", "r", "c", "e">>

\* the columns of a frame at the indices of the set keep
KeepColumns(df, keep) ==
    Frame(SelectSeqBy(Headers(df), keep),
          [j \in DOMAIN Rows(df) |-> SelectSeqBy(Rows(df)[j], keep)])

\* extract_excel_from_blob lines 205-208: the sheet as read, with the column
\* source set to source_name (added last when the sheet has none)
extract_excel_from_blob(sheet, source_name) ==
    IF \E i \in DOMAIN Headers(sheet) : Headers(sheet)[i] = SourceHeader
    THEN Frame(Headers(sheet),
               [j \in DOMAIN Rows(sheet) |->
                   [i \in DOMAIN Headers(sheet) |->
                       IF Headers(sheet)[i] = SourceHeader THEN source_name
                       ELSE Rows(sheet)[j][i]]])
    ELSE Frame(Append(Headers(sheet), SourceHeader),
               [j \in DOMAIN Rows(sheet) |-> Append(Rows(sheet)[j], source_name)])

\* main lines 586-588: df.drop(columns=["source"])
drop_source(df) ==
    KeepColumns(df, {i \in DOMAIN Headers(df) : Headers(df)[i] # SourceHeader})

\* df.rename(columns=mapping): a header the mapping leaves out keeps its text
rename(mapping, headers) ==
    MapSeq(LAMBDA i : IF i \in DOMAIN mapping THEN TargetText[mapping[i]] ELSE headers[i],
           [i \in DOMAIN headers |-> i])

\* main lines 591-605: the headers renamed with the mapping of the mapper of
\* the sheet
rename_columns(kind, headers) ==
    rename(IF kind = "stock" THEN guess_stock_columns(headers)
           ELSE guess_sales_columns(headers),
           headers)

\* df["sku"].astype(str).str on the renamed headers: with two columns named
\* "sku" df["sku"] is a frame, which has no attribute str
str_error(renamed) ==
    IF Cardinality({i \in DOMAIN renamed : renamed[i] = TargetText.sku}) > 1
    THEN "AttributeError" ELSE "none"

\* main lines 608-613: what the cut to the first token raises, "none" when it
\* raises nothing
first_token_error(kind, df) == str_error(rename_columns(kind, Headers(df)))

\* clean_and_normalize line 113: the column name stripped, in lower case, its
\* spaces replaced by "_"
column_name(h) ==
    LET s == strip(h)
    IN  [i \in DOMAIN s |-> IF lower(s[i]) = " " THEN "_" ELSE lower(s[i])]

RECURSIVE first_notna(_, _)
\* _first_notna: the first cell of the row that is not missing, else pd.NA
\* (na is the missing value of the column, none what stands for pd.NA)
first_notna(cells, missing) ==
    IF cells = <<>> THEN missing.none
    ELSE IF Head(cells) \in missing.na THEN first_notna(Tail(cells), missing)
    ELSE Head(cells)

\* _pick_series on one row: the cell of the only column of that name, or, with
\* duplicate columns, the first cell that is not missing
pick_series(cells, missing) ==
    IF Len(cells) = 1 THEN cells[1] ELSE first_notna(cells, missing)

\* what is missing in a text column and in a numeric column
TextMissing == [na |-> {NaNCell, PdNA}, none |-> PdNA]

NumberMissing == [na |-> {NA}, none |-> NA]

\* the columns that have the name of target t
named(names, t) == {i \in DOMAIN names : names[i] = TargetText[t]}

\* main lines 608-613 on one row: the cell of the column named "sku" is cut to
\* its first token
first_token_row(renamed, row) ==
    [i \in DOMAIN renamed |->
        IF renamed[i] = TargetText.sku THEN first_token(row[i]) ELSE row[i]]

\* clean_and_normalize lines 115-136 on one row and one target, whose columns
\* are cols: the normalized SKU, the quantity with missing -> 0, a number
clean_cell(t, row, cols) ==
    IF cols = {} THEN (IF t = "sku" THEN NoSku ELSE NA)
    ELSE IF t = "sku"
    THEN normalize_sku(pick_series(SelectSeqBy(row, cols), TextMissing))
    ELSE IF t = "quantity"
    THEN fillna(pick_series(SelectSeqBy(row, cols), NumberMissing), N(0))
    ELSE pick_series(SelectSeqBy(row, cols), NumberMissing)

\* the cleaned frame of the rows under the renamed headers, whose cleaned
\* names are names
clean_rows(kind, renamed, names, rows) ==
    [cols |-> {t \in TargetsOf(kind) : named(names, t) # {}},
     rows |-> [j \in DOMAIN rows |->
                 [t \in TargetsOf(kind) |->
                     clean_cell(t, first_token_row(renamed, rows[j]), named(names, t))]]]

\* clean_and_normalize line 113 on the renamed headers, then the cleaning
clean_and_normalize(kind, renamed, rows) ==
    clean_rows(kind, renamed, MapSeq(column_name, renamed), rows)

\* main lines 591-621 on one sheet: renaming, first token of the column named
\* "sku", then clean_and_normalize (column names, normalized SKU, quantity
\* with missing -> 0, numeric columns, duplicate columns dropped) and the
\* reduction of the stock frame to its canonical columns (lines 641-643)
clean_sheet(kind, df) ==
    clean_and_normalize(kind, rename_columns(kind, Headers(df)), Rows(df))

\* the headers the docstring of guess_sales_columns names: "Item Code", "Qty",
\* "Net w/o Tax", "Net w/Tax"
StandardSalesHeaders ==
    <<<<"I", "t", "e", "m", " ", "C", "o", "d", "e">>,
      <<"Q", "t", "y">>,
      <<"N", "e", "t", " ", "w", "/", "o", " ", "T", "a", "x">>,
      <<"N", "e", "t", " ", "w", "/", "T", "a", "x">>>>

\* the header "Net without Tax"
NetWithoutTax ==
    <<"N", "e", "t", " ", "w", "i", "t", "h", "o", "u", "t", " ", "T", "a", "x">>

\* the four, and "Quantity", "Net without Tax", "Customer"
SalesHeaders ==
    {StandardSalesHeaders[i] : i \in 1..4}
    \cup {<<"Q", "u", "a", "n", "t", "i", "t", "y">>,
          NetWithoutTax,
          <<"C", "u", "s", "t", "o", "m", "e", "r">>}

\* the headers the docstring of guess_stock_columns names: "Item",
\* "Qte de l'image" (with its accent), "Valo. PA", "Valo. PR"
StandardStockHeaders ==
    <<<<"I", "t", "e", "m">>,
      <<"Q", "t", "e_acute", " ", "d", "e", " ", "l", "'", "i", "m", "a", "g", "e">>,
      <<"V", "a", "l", "o", ".", " ", "P", "A">>,
      <<"V", "a", "l", "o", ".", " ", "P", "R">>>>

\* the four, and "Cost Price", "Stock Qty", "Site Code"
StockHeaders ==
    {StandardStockHeaders[i] : i \in 1..4}
    \cup {<<"C", "o", "s", "t", " ", "P", "r", "i", "c", "e">>,
          <<"S", "t", "o", "c", "k", " ", "Q", "t", "y">>,
          <<"S", "i", "t", "e", " ", "C", "o", "d", "e">>}

(***************************************************************************)
(* State                                                                   *)
(***************************************************************************)
\* Pipeline invocations.  Spec runs invocation 1 over and over.
Runs == {1, 2}

VARIABLES
    retry_enriched, \* the rows of the view retry_enriched
    stock_blob,     \* the stock workbook: its headers and its rows
    ventes_blob,    \* the sales workbook: its headers and its rows
    db,             \* the committed rows of each derived table
    created,        \* the derived tables that exist
    pc,             \* per invocation: its position in main
    conn,           \* per invocation: "none", "open" or "closed"
    pending,        \* per invocation: the uncommitted rewrite of its connection
    cur,            \* per invocation: index in LoadOrder of the current load
    frames,         \* per invocation: the frames read, cleaned and merged
    resp,           \* per invocation: the status code returned, 0 while running
    start_db,       \* history: db when the invocation opened its connection
    failed,         \* history: where the invocation last raised, caught or not
    rewritten,      \* history: the tables the invocation truncated and committed
    last_resp,      \* history: the status code of the invocation before
    touched,        \* history: the tables the invocation created, truncated or wrote
    src_changed,    \* history: the sources changed since the invocation before
    fin_df,         \* SpecFin: the frame given to calculate_financials
    fin_out,        \* SpecFin: the frame it returns, <<>> before the call
    map_kind,       \* SpecMap: the sheet whose headers are mapped, "stock" or "sales"
    map_headers,    \* SpecMap: the headers of the sheet, in order
    map_out,        \* SpecMap: the mapping returned, header index -> canonical name
    map_done,       \* SpecMap: the mapper has returned
    retry_table,    \* SpecOrders: the rows of retry_table, row i has id i
    flow_pc,        \* SpecOrders: per send flow, its position
    batch,          \* SpecOrders: per send flow, the orders get_pending_orders returned
    pos,            \* SpecOrders: per send flow, the index in batch of the current order
    transmitted,    \* SpecOrders, history: per row, the calls the ERP answered
    writer,         \* history: per derived table, the invocation that last committed it
    overlapped,     \* history: an invocation started while another was running
    last_done,      \* history: the invocation that last answered 200, 0 if none
    last_end,       \* history: the invocation that last answered, 0 if none
    invocations,    \* SpecOverlap: the invocations started
    staging         \* SpecStaging: the call of upsert_staging and its position

srcVars == <<retry_enriched, stock_blob, ventes_blob>>

dbVars == <<db, created>>

runVars == <<pc, conn, pending, cur, frames, resp>>

histVars == <<start_db, failed, rewritten, last_resp, touched, src_changed>>

finVars == <<fin_df, fin_out>>

mapVars == <<map_kind, map_headers, map_out, map_done>>

ordVars == <<retry_table, flow_pc, batch, pos, transmitted>>

ovlVars == <<writer, overlapped, last_done, last_end, invocations>>


stgVars == <<staging>>

\* what an invocation that answers 500 leaves alone outside the pipeline
endVars == <<mapVars, ordVars, stgVars, writer, overlapped, last_done, invocations>>

auxVars == <<mapVars, ordVars, ovlVars, stgVars>>

vars == <<srcVars, dbVars, runVars, histVars, finVars, auxVars>>

NoFrames == [retry_df |-> <<>>, stock_df |-> [cols |-> {}, rows |-> <<>>],
             ventes_df |-> [cols |-> {}, rows |-> <<>>], merged_df |-> <<>>,
             sales |-> <<>>]

NoPending == [tbl |-> "none", rows |-> <<>>]

NoFailure == [step |-> "none", phase |-> "none", error |-> "none"]

EmptyDb == [t \in Tables |-> <<>>]

\* mutant of close_uncommitted: the connection runs in autocommit mode, the
\* rows written before the failure stay
close_autocommit(committed, pend) ==
    IF pend.tbl = "none" THEN committed
    ELSE [committed EXCEPT ![pend.tbl] = pend.rows]

\* conn.close() with an uncommitted transaction: the transaction is rolled
\* back, the committed rows stay
close_uncommitted(committed, pend) == committed

\* mutant of commit_pending: the rewrite of a table is not committed by its
\* load (one transaction around the four loads)
commit_deferred(committed, pend) == committed

\* conn.commit(): the uncommitted rewrite becomes the committed rows
commit_pending(committed, pend) ==
    IF pend.tbl = "none" THEN committed
    ELSE [committed EXCEPT ![pend.tbl] = pend.rows]

RECURSIVE upsert_staging(_)
\* upsert_staging lines 486-491: the SKUs the statement inserts into the
\* truncated table, those that are not empty, each once (ON CONFLICT DO
\* NOTHING), in the order of their first occurrence
upsert_staging(skus) ==
    IF skus = <<>> THEN <<>>
    ELSE LET before == upsert_staging(SubSeq(skus, 1, Len(skus) - 1))
             s == skus[Len(skus)]
         IN  IF s = NoSku \/ \E i \in DOMAIN before : before[i] = s
             THEN before ELSE Append(before, s)

(***************************************************************************)
(* main: one pipeline invocation                                           *)
(***************************************************************************)
CurTable(r) == LoadOrder[cur[r]]

\* load_to_postgres lines 221-226: the numeric columns of merged_df are filled
\* with 0 in the frame itself (quantity and the totals hold numbers already,
\* is_valid holds booleans)
fill_numeric(merged) ==
    [i \in DOMAIN merged |->
        [merged[i] EXCEPT !.stock_qty = fillna(@, N(0)),
                          !.purchase_value = fillna(@, N(0)),
                          !.retail_value = fillna(@, N(0))]]

\* the rows the load of table t inserts in invocation r
rows_to_load(r, t) ==
    CASE t = "unified_data"   -> unified_rows(frames[r].merged_df)
      [] t = "sales_agg"      -> sales_agg_rows(frames[r].ventes_df)
      [] t = "stock_snapshot" ->
             stock_snapshot_rows(frames[r].stock_df, frames[r].sales)
      [] t = "order_errors"   -> order_error_rows(frames[r].merged_df)

\* the load of table t returns before it touches the table
load_skipped(r, t) ==
    \/ t = "sales_agg" /\ sales_agg_skipped(frames[r].ventes_df)
    \/ t = "stock_snapshot" /\ stock_snapshot_error(frames[r].stock_df) = "return"

\* the exception the load of table t raises before it touches the table
load_error(r, t) ==
    IF t = "stock_snapshot"
       /\ stock_snapshot_error(frames[r].stock_df) \notin {"none", "return"}
    THEN stock_snapshot_error(frames[r].stock_df)
    ELSE "none"

\* pc and cur after the load of the current table is over
AfterLoad(r) ==
    IF cur[r] < Len(LoadOrder)
    THEN /\ pc' = [pc EXCEPT ![r] = "load"]
         /\ cur' = [cur EXCEPT ![r] = @ + 1]
    ELSE /\ pc' = [pc EXCEPT ![r] = "close"]
         /\ cur' = cur

\* the invocation ends with a 500 (outer except of main)
Respond500(r, where) ==
    /\ pc' = [pc EXCEPT ![r] = "done"]
    /\ resp' = [resp EXCEPT ![r] = 500]
    /\ failed' = [failed EXCEPT ![r] = where]
    /\ last_end' = r

\* lines 573-574: get_connection succeeds
Connect(r) ==
    /\ pc[r] = "idle"
    /\ pc' = [pc EXCEPT ![r] = "extract"]
    /\ conn' = [conn EXCEPT ![r] = "open"]
    /\ resp' = [resp EXCEPT ![r] = 0]
    /\ start_db' = [start_db EXCEPT ![r] = db]
    /\ failed' = [failed EXCEPT ![r] = NoFailure]
    /\ rewritten' = [rewritten EXCEPT ![r] = {}]
    /\ touched' = [touched EXCEPT ![r] = {}]
    /\ overlapped' = (overlapped \/ \E q \in Runs \ {r} : pc[q] \notin {"idle", "done"})
    /\ UNCHANGED <<stgVars, mapVars, ordVars, writer, last_done, last_end, finVars, srcVars,
                   dbVars, pending, cur, frames, last_resp, src_changed>>

\* lines 575-577: get_connection raises, 500
ConnectFail(r) ==
    /\ pc[r] = "idle"
    /\ Respond500(r, [step |-> "connect", phase |-> "none", error |-> "OperationalError"])
    /\ start_db' = [start_db EXCEPT ![r] = db]
    /\ rewritten' = [rewritten EXCEPT ![r] = {}]
    /\ touched' = [touched EXCEPT ![r] = {}]
    /\ overlapped' = (overlapped \/ \E q \in Runs \ {r} : pc[q] \notin {"idle", "done"})
    /\ UNCHANGED <<stgVars, mapVars, ordVars, writer, last_done, finVars, srcVars, dbVars, conn,
                   pending, cur, frames, last_resp, src_changed>>

\* line 580: extract_retry_table reads the view retry_enriched
ReadRetry(r) ==
    /\ pc[r] = "extract"
    /\ frames' = [frames EXCEPT ![r].retry_df = extract_retry_table(retry_enriched)]
    /\ pc' = [pc EXCEPT ![r] = "read_ventes"]
    /\ UNCHANGED <<auxVars, finVars, srcVars, dbVars, conn, pending, cur, resp, histVars>>

\* line 581: the sales workbook is read from the blob container
ReadVentes(r) ==
    /\ pc[r] = "read_ventes"
    /\ frames' = [frames EXCEPT ![r].ventes_df = extract_excel_from_blob(ventes_blob, "sales")]
    /\ pc' = [pc EXCEPT ![r] = "read_stock"]
    /\ UNCHANGED <<auxVars, finVars, srcVars, dbVars, conn, pending, cur, resp, histVars>>

\* line 582: the stock workbook is read from the blob container
ReadStock(r) ==
    /\ pc[r] = "read_stock"
    /\ frames' = [frames EXCEPT ![r].stock_df = extract_excel_from_blob(stock_blob, "stock")]
    /\ pc' = [pc EXCEPT ![r] = "clean"]
    /\ UNCHANGED <<auxVars, finVars, srcVars, dbVars, conn, pending, cur, resp, histVars>>

\* load_excel_from_blob lines 18-21: the messages of the RuntimeError raised
\* when a blob setting is missing
ConfigErrors == {"BLOB_STORAGE_CONNECTION_STRING manquant", "BLOB_CONTAINER_NAME manquant"}

\* what the extraction raises: the view cannot be read, a blob setting is
\* missing, the blob does not exist
ExtractErrors == {"DatabaseError", "Blob introuvable"} \cup ConfigErrors

\* what the read at position p of main raises
ErrorsAt(p) ==
    IF p = "extract" THEN {"DatabaseError"} ELSE ExtractErrors \ {"DatabaseError"}

\* mutant of ExtractFail: the four tables are created before the extraction
ExtractFailEnsured(r) ==
    /\ pc[r] \in {"extract", "read_ventes", "read_stock"}
    /\ \E e \in ErrorsAt(pc[r]) :
          Respond500(r, [step |-> "extract", phase |-> "none", error |-> e])
    /\ created' = Tables
    /\ touched' = [touched EXCEPT ![r] = Tables]
    /\ UNCHANGED <<endVars, finVars, srcVars, db, conn, pending, cur, frames,
                   start_db, rewritten, last_resp, src_changed>>

\* line 580, 581 or 582 raises: the outer except answers 500 with the
\* traceback, the connection is left open
ExtractFail(r) ==
    /\ pc[r] \in {"extract", "read_ventes", "read_stock"}
    /\ \E e \in ErrorsAt(pc[r]) :
          Respond500(r, [step |-> "extract", phase |-> "none", error |-> e])
    /\ UNCHANGED <<endVars, finVars, srcVars, dbVars, conn, pending, cur, frames,
                   start_db, rewritten, last_resp, touched, src_changed>>

\* the first of two statements that raises
first_error(a, b) == IF a # "none" THEN a ELSE b

\* the exception lines 586-621 raise on the frames read, "none" when they
\* raise none (the stock frame is handled first)
clean_error(stock, ventes) ==
    first_error(first_token_error("stock", drop_source(stock)),
                first_token_error("sales", drop_source(ventes)))

\* lines 586-621: the column source is dropped, the columns are renamed, the
\* three frames are cleaned
Clean(r) ==
    /\ pc[r] = "clean"
    /\ clean_error(frames[r].stock_df, frames[r].ventes_df) = "none"
    /\ frames' = [frames EXCEPT
          ![r].retry_df  = clean_retry(@),
          ![r].stock_df  = clean_sheet("stock", drop_source(@)),
          ![r].ventes_df = clean_sheet("sales", drop_source(@))]
    /\ pc' = [pc EXCEPT ![r] = "transform"]
    /\ UNCHANGED <<auxVars, finVars, srcVars, dbVars, conn, pending, cur, resp, histVars>>

\* lines 608-613 raise: 500, the connection is left open
CleanRaise(r) ==
    /\ pc[r] = "clean"
    /\ clean_error(frames[r].stock_df, frames[r].ventes_df) # "none"
    /\ Respond500(r, [step |-> "clean", phase |-> "none",
                      error |-> clean_error(frames[r].stock_df, frames[r].ventes_df)])
    /\ UNCHANGED <<endVars, finVars, srcVars, dbVars, conn, pending, cur, frames,
                   start_db, rewritten, last_resp, touched, src_changed>>

\* lines 623-683: sales price, merges, price fallback, rules, financials
Transform(r) ==
    /\ pc[r] = "transform"
    /\ transform_error(frames[r].stock_df, frames[r].ventes_df) = "none"
    /\ frames' = [frames EXCEPT ![r].merged_df =
          merged_frame(frames[r].retry_df, frames[r].stock_df, frames[r].ventes_df)]
    /\ pc' = [pc EXCEPT ![r] = "load"]
    /\ cur' = [cur EXCEPT ![r] = 1]
    /\ UNCHANGED <<auxVars, finVars, srcVars, dbVars, conn, pending, resp, histVars>>

\* lines 646-667 raise: 500, the connection is left open
TransformRaise(r) ==
    /\ pc[r] = "transform"
    /\ transform_error(frames[r].stock_df, frames[r].ventes_df) # "none"
    /\ Respond500(r, [step |-> "transform", phase |-> "none",
                      error |-> transform_error(frames[r].stock_df, frames[r].ventes_df)])
    /\ UNCHANGED <<endVars, finVars, srcVars, dbVars, conn, pending, cur, frames,
                   start_db, rewritten, last_resp, touched, src_changed>>

\* a load that returns at once (no sku column)
LoadSkip(r) ==
    /\ pc[r] = "load"
    /\ load_skipped(r, CurTable(r))
    /\ AfterLoad(r)
    /\ UNCHANGED <<auxVars, finVars, srcVars, dbVars, conn, pending, frames, resp, histVars>>

\* TRUNCATE and ALTER TABLE hold an exclusive lock on their table until the
\* transaction ends: a statement of invocation r on table t waits while
\* another invocation has an uncommitted rewrite of t
locked(r, t) == \E q \in Runs \ {r} : pending[q].tbl = t

\* the SELECT of lines 302-303 holds a share lock on sales_agg until the
\* commit of line 355 (a SELECT that raised was rolled back): the TRUNCATE of
\* invocation r on table t waits while another invocation holds that lock
read_locked(r, t) ==
    /\ t = "sales_agg"
    /\ \E q \in Runs \ {r} :
          /\ pc[q] = "create"
          /\ CurTable(q) = "stock_snapshot"
          /\ failed[q].phase # "read"

\* a load up to its first statement on its table: load_to_postgres fills the
\* numeric columns of merged_df (lines 221-226), load_table_stock_snapshot
\* reads sales_agg (lines 301-303), the other loads compute their rows
LoadPrepare(r) ==
    /\ pc[r] = "load"
    /\ ~load_skipped(r, CurTable(r))
    /\ load_error(r, CurTable(r)) = "none"
    /\ CurTable(r) = "stock_snapshot"
          => "sales_agg" \in created /\ ~locked(r, "sales_agg")
    /\ frames' = [frames EXCEPT ![r] =
          CASE CurTable(r) = "unified_data" ->
                  [@ EXCEPT !.merged_df = fill_numeric(@)]
            [] CurTable(r) = "stock_snapshot" ->
                  [@ EXCEPT !.sales = db["sales_agg"]]
            [] OTHER -> @]
    /\ pc' = [pc EXCEPT ![r] = "create"]
    /\ UNCHANGED <<auxVars, finVars, srcVars, dbVars, conn, pending, cur, resp, histVars>>

\* load_table_stock_snapshot lines 301-305: the SELECT on sales_agg raises
\* (the table does not exist, statement timeout, lock timeout, permission);
\* pandas rolls the connection back, the except clause swallows the exception
\* and the load goes on with no sales price
ReadSalesFail(r) ==
    /\ pc[r] = "load"
    /\ CurTable(r) = "stock_snapshot"
    /\ ~load_skipped(r, CurTable(r))
    /\ load_error(r, CurTable(r)) = "none"
    /\ frames' = [frames EXCEPT ![r].sales = <<>>]
    /\ failed' = [failed EXCEPT ![r] =
          [step |-> "stock_snapshot", phase |-> "read",
           error |-> IF "sales_agg" \in created THEN "DatabaseError"
                     ELSE "UndefinedTable"]]
    /\ pc' = [pc EXCEPT ![r] = "create"]
    /\ UNCHANGED <<auxVars, finVars, srcVars, dbVars, conn, pending, cur, resp,
                   start_db, rewritten, last_resp, touched, src_changed>>

\* CREATE TABLE IF NOT EXISTS and conn.commit() (lines 229-245, 344-355,
\* 427-435, 459-467)
LoadCreate(r) ==
    /\ pc[r] = "create"
    /\ created' = created \cup {CurTable(r)}
    /\ touched' = [touched EXCEPT ![r] = @ \cup {CurTable(r)}]
    /\ pc' = [pc EXCEPT ![r] =
          IF CurTable(r) = "stock_snapshot" THEN "alter" ELSE "truncate"]
    /\ UNCHANGED <<auxVars, finVars, srcVars, db, conn, pending, cur, frames, resp,
                   start_db, failed, rewritten, last_resp, src_changed>>

\* load_table_stock_snapshot lines 358-364: ALTER TABLE ... ADD COLUMN IF NOT
\* EXISTS for columns the table has, and conn.commit()
LoadAlter(r) ==
    /\ pc[r] = "alter"
    /\ ~locked(r, CurTable(r))
    /\ pc' = [pc EXCEPT ![r] = "truncate"]
    /\ UNCHANGED <<auxVars, finVars, srcVars, dbVars, conn, pending, cur, frames, resp,
                   histVars>>

\* TRUNCATE and the INSERTs of a load, in one transaction that is not yet
\* committed (lines 246-269, 366-388, 436-444, 468-473)
LoadTruncate(r) ==
    /\ pc[r] = "truncate"
    /\ ~locked(r, CurTable(r))
    /\ ~read_locked(r, CurTable(r))
    /\ pending' = [pending EXCEPT ![r] =
          [tbl |-> CurTable(r), rows |-> rows_to_load(r, CurTable(r))]]
    /\ pc' = [pc EXCEPT ![r] = "commit"]
    /\ UNCHANGED <<auxVars, finVars, srcVars, dbVars, conn, cur, frames, resp, histVars>>

\* the final conn.commit() of a load (lines 270, 389, 445, 474)
LoadCommit(r) ==
    /\ pc[r] = "commit"
    /\ db' = commit_pending(db, pending[r])
    /\ pending' = [pending EXCEPT ![r] = NoPending]
    /\ rewritten' = [rewritten EXCEPT ![r] = @ \cup {CurTable(r)}]
    /\ writer' = [writer EXCEPT ![CurTable(r)] = r]
    /\ AfterLoad(r)
    /\ UNCHANGED <<stgVars, mapVars, ordVars, overlapped, last_done, last_end, invocations,
                   finVars, srcVars, created, conn, frames, resp, start_db, failed, last_resp,
                   touched, src_changed>>

\* the load raises while it computes its rows, before its first statement;
\* finally: conn.close(); 500
LoadRaise(r) ==
    /\ pc[r] = "load"
    /\ ~load_skipped(r, CurTable(r))
    /\ load_error(r, CurTable(r)) # "none"
    /\ conn' = [conn EXCEPT ![r] = "closed"]
    /\ Respond500(r, [step |-> CurTable(r), phase |-> "compute",
                      error |-> load_error(r, CurTable(r))])
    /\ UNCHANGED <<endVars, finVars, srcVars, dbVars, pending, cur, frames,
                   start_db, rewritten, last_resp, touched, src_changed>>

\* the phases in which a statement of the load raises at position p, with the
\* open transaction when it does: the CREATE TABLE ("ddl"), an ALTER TABLE
\* ("alter"), the TRUNCATE ("truncate"), the INSERT that follows k inserted
\* rows ("insert"), the final commit ("commit")
Failures(r, p) ==
    CASE p = "create"   -> {[phase |-> "ddl", pend |-> NoPending]}
      [] p = "alter"    -> {[phase |-> "alter", pend |-> NoPending]}
      [] p = "truncate" ->
            LET rows == rows_to_load(r, CurTable(r))
            IN  {[phase |-> "truncate", pend |-> NoPending]}
                \cup {[phase |-> "insert",
                       pend |-> [tbl |-> CurTable(r), rows |-> SubSeq(rows, 1, k)]] :
                         k \in 0..(Len(rows) - 1)}
      [] p = "commit"   -> {[phase |-> "commit", pend |-> pending[r]]}

\* a statement of the load raises (constraint violation, connection loss,
\* lock timeout).  finally: conn.close() ends the open transaction; 500
LoadFail(r) ==
    /\ pc[r] \in {"create", "alter", "truncate", "commit"}
    /\ \E f \in Failures(r, pc[r]) :
          /\ db' = close_uncommitted(db, f.pend)
          /\ Respond500(r, [step |-> CurTable(r), phase |-> f.phase,
                            error |-> "DatabaseError"])
    /\ pending' = [pending EXCEPT ![r] = NoPending]
    /\ conn' = [conn EXCEPT ![r] = "closed"]
    /\ UNCHANGED <<endVars, finVars, srcVars, created, cur, frames, start_db, rewritten,
                   last_resp, touched, src_changed>>

\* lines 696-712: conn.close() (a failing close is only logged), 200
Close(r) ==
    /\ pc[r] = "close"
    /\ conn' = [conn EXCEPT ![r] = "closed"]
    /\ resp' = [resp EXCEPT ![r] = 200]
    /\ pc' = [pc EXCEPT ![r] = "done"]
    /\ last_done' = r
    /\ last_end' = r
    /\ UNCHANGED <<stgVars, mapVars, ordVars, writer, overlapped, invocations, finVars, srcVars,
                   dbVars, pending, cur, frames, histVars>>

\* the response is out; the trigger may fire again
Return(r) ==
    /\ pc[r] = "done"
    /\ pc' = [pc EXCEPT ![r] = "idle"]
    /\ conn' = [conn EXCEPT ![r] = "none"]
    /\ frames' = [frames EXCEPT ![r] = NoFrames]
    /\ cur' = [cur EXCEPT ![r] = 1]
    /\ resp' = [resp EXCEPT ![r] = 0]
    /\ start_db' = [start_db EXCEPT ![r] = EmptyDb]
    /\ failed' = [failed EXCEPT ![r] = NoFailure]
    /\ rewritten' = [rewritten EXCEPT ![r] = {}]
    /\ last_resp' = resp[r]
    /\ touched' = [touched EXCEPT ![r] = {}]
    /\ src_changed' = FALSE
    /\ UNCHANGED <<auxVars, finVars, srcVars, dbVars, pending>>

(***************************************************************************)
(* Sources                                                                 *)
(***************************************************************************)
\* the sequences over S of length at most n
SeqsUpTo(S, n) == UNION {[1..k -> S] : k \in 0..n}

\* a row of the view retry_enriched
VRow(id, sku, qty, type, final, orig) ==
    [id |-> id, sku |-> sku, quantity |-> qty, order_type |-> type,
     final_price_ttc |-> final, original_price_ttc |-> orig]

\* a row of the stock workbook
SRow(sku, qty, pa, pr) ==
    [sku |-> sku, stock_qty |-> qty, purchase_value |-> pa, retail_value |-> pr]

\* a row of the sales workbook
VtRow(sku, qty, wo, w) ==
    [sku |-> sku, quantity |-> qty, net_wo_tax |-> wo, net_w_tax |-> w]

\* the order of the canonical columns in the sales workbooks of the model
SalesTargetOrder == <<"sku", "quantity", "net_wo_tax", "net_w_tax">>

\* headers of the sales workbook that guess_sales_columns maps one to one:
\* "Item Code", "Qty", "Net without Tax", "Net w/Tax"
MappedSalesHeaders ==
    <<StandardSalesHeaders[1], StandardSalesHeaders[2], NetWithoutTax,
      StandardSalesHeaders[4]>>

\* the workbook that holds, under the headers given for them, the columns
\* cols of the rows, which are records over the canonical names in order
Sheet(order, headers, cols, rows) ==
    LET keep == {k \in DOMAIN order : order[k] \in cols}
    IN  Frame(SelectSeqBy(headers, keep),
              [j \in DOMAIN rows |->
                  SelectSeqBy([k \in DOMAIN order |-> rows[j][order[k]]], keep)])

StockSheet(cols, rows) == Sheet(StockTargetOrder, StandardStockHeaders, cols, rows)

SalesSheet(cols, rows) == Sheet(SalesTargetOrder, MappedSalesHeaders, cols, rows)

\* the sources of Spec come in versions: version v of the retry queue, of
\* the stock workbook and of the sales workbook.  The order of an odd version
\* is a sale of SKU A1, which is in stock; the order of an even version is a
\* return of SKU B2, which is not.
SkuOfVersion(v) == IF v % 2 = 1 THEN <<"A", "1">> ELSE <<"B", "2">>

ViewVersion(v) ==
    << VRow(v, SkuOfVersion(v), N(v), IF v % 2 = 1 THEN "sale" ELSE "return",
            N(1200 * v), NA) >>

StockVersion(v) == << SRow(<<"A", "1">>, N(3 * v), N(800), N(1000 * v)) >>

SalesVersion(v) == << VtRow(SkuOfVersion(v), N(v), N(5000 * v), NA) >>

Sources(view, stock, ventes) == [view |-> view, stock |-> stock, ventes |-> ventes]

\* the sales workbook under the headers of the docstring of
\* guess_sales_columns, which maps "Net w/o Tax" and "Net w/Tax" to one name
DocstringSales(rows) == Sheet(SalesTargetOrder, StandardSalesHeaders, SalesTargets, rows)

\* the sales workbook with a first column "sku" that repeats the column
\* "Item Code"
TwoSkuSales(rows) ==
    LET sheet == SalesSheet(SalesTargets, rows)
    IN  Frame(<<TargetText.sku>> \o Headers(sheet),
              [j \in DOMAIN rows |-> <<rows[j].sku>> \o Rows(sheet)[j]])

\* every version with all the canonical columns mapped, and version 1 with one
\* canonical column of the stock or of the sales workbook left unmapped, or
\* with one of the stock workbook and the sku column of the sales workbook, or
\* with a sales workbook that has two columns named sku
LoadSources ==
    {Sources(ViewVersion(v), StockSheet(StockTargets, StockVersion(v)),
             SalesSheet(SalesTargets, SalesVersion(v))) : v \in 1..MaxVersions}
    \cup {Sources(ViewVersion(1), StockSheet(StockTargets \ {c}, StockVersion(1)),
                  SalesSheet(SalesTargets, SalesVersion(1))) : c \in StockTargets}
    \cup {Sources(ViewVersion(1), StockSheet(StockTargets, StockVersion(1)),
                  SalesSheet(SalesTargets \ {c}, SalesVersion(1))) : c \in SalesTargets}
    \cup {Sources(ViewVersion(1), StockSheet(StockTargets \ {c}, StockVersion(1)),
                  SalesSheet(SalesTargets \ {"sku"}, SalesVersion(1))) : c \in StockTargets}
    \cup {Sources(ViewVersion(1), StockSheet(StockTargets, StockVersion(1)),
                  TwoSkuSales(SalesVersion(1)))}

(***************************************************************************)
(* Specification of the pipeline: invocation 1 runs again and again over   *)
(* sources that change between runs, and may fail at every step            *)
(***************************************************************************)
InitRun ==
    /\ db = EmptyDb
    /\ created = {}
    /\ pc = [r \in Runs |-> "idle"]
    /\ conn = [r \in Runs |-> "none"]
    /\ pending = [r \in Runs |-> NoPending]
    /\ cur = [r \in Runs |-> 1]
    /\ frames = [r \in Runs |-> NoFrames]
    /\ resp = [r \in Runs |-> 0]
    /\ start_db = [r \in Runs |-> EmptyDb]
    /\ failed = [r \in Runs |-> NoFailure]
    /\ rewritten = [r \in Runs |-> {}]
    /\ last_resp = 0
    /\ touched = [r \in Runs |-> {}]
    /\ src_changed = FALSE

\* the column mappers are not under study
NoMap ==
    /\ map_kind = "none"
    /\ map_headers = <<>>
    /\ map_out = <<>>
    /\ map_done = FALSE

\* the send flows: 1 and 2 are runs of the timer function OrdersProcess
\* (process_pending_orders), 3 is a request to send_to_cegid, whose module
\* does not load
Flows == {1, 2, 3}

TimerFlows == {1, 2}

\* the retry queue is empty and no send flow has started
NoOrders ==
    /\ retry_table = <<>>
    /\ flow_pc = [f \in Flows |-> "idle"]
    /\ batch = [f \in Flows |-> <<>>]
    /\ pos = [f \in Flows |-> 0]
    /\ transmitted = <<>>

\* no derived table has been committed, no invocation has started
NoOverlap ==
    /\ writer = [t \in Tables |-> 0]
    /\ overlapped = FALSE
    /\ last_done = 0
    /\ last_end = 0
    /\ invocations = 0

\* upsert_staging is not called
NoStaging ==
    staging = [pc |-> "idle", table_name |-> "none", skus |-> <<>>,
               schema |-> "none", pend |-> <<>>]

NoAux == NoMap /\ NoOrders /\ NoOverlap /\ NoStaging

\* calculate_financials is not under study
NoFin ==
    /\ fin_df = [has_ttc |-> FALSE, rows |-> <<>>]
    /\ fin_out = <<>>

Init ==
    /\ \E src \in LoadSources :
          /\ retry_enriched = src.view
          /\ stock_blob = src.stock
          /\ ventes_blob = src.ventes
    /\ InitRun
    /\ NoFin
    /\ NoAux

\* between two invocations the retry queue and the workbooks change
ChangeSources ==
    /\ \A r \in Runs : pc[r] = "idle"
    /\ \E src \in LoadSources :
          /\ retry_enriched' = src.view
          /\ stock_blob' = src.stock
          /\ ventes_blob' = src.ventes
    /\ src_changed' = TRUE
    /\ UNCHANGED <<auxVars, finVars, dbVars, runVars, start_db, failed, rewritten, last_resp, touched>>

\* the trigger fires; Spec does not count the invocations
Trigger(r) ==
    /\ Connect(r) \/ ConnectFail(r)
    /\ UNCHANGED invocations

Invocation(r) ==
    \/ Trigger(r)
    \/ ReadRetry(r) \/ ReadVentes(r) \/ ReadStock(r) \/ ExtractFail(r)
    \/ Clean(r) \/ CleanRaise(r)
    \/ Transform(r) \/ TransformRaise(r)
    \/ LoadSkip(r) \/ LoadPrepare(r) \/ ReadSalesFail(r)
    \/ LoadCreate(r) \/ LoadAlter(r) \/ LoadTruncate(r) \/ LoadCommit(r)
    \/ LoadRaise(r) \/ LoadFail(r)
    \/ Close(r) \/ Return(r)

Next == Invocation(1) \/ ChangeSources

Spec == Init /\ [][Next]_vars

(***************************************************************************)
(* Properties of the load (Spec)                                           *)
(***************************************************************************)
\* the cleaned frame of a workbook
Cleaned(kind, sheet) ==
    clean_sheet(kind, drop_source(extract_excel_from_blob(sheet, kind)))

\* the four tables as one run over the given sources computes them
ExpectedTables(view, stock, ventes) ==
    LET merged == merged_frame(clean_retry(extract_retry_table(view)),
                               Cleaned("stock", stock), Cleaned("sales", ventes))
        agg    == sales_agg_rows(Cleaned("sales", ventes))
    IN  [t \in Tables |->
           CASE t = "unified_data"   -> unified_rows(merged)
             [] t = "sales_agg"      -> agg
             [] t = "stock_snapshot" -> stock_snapshot_rows(Cleaned("stock", stock), agg)
             [] t = "order_errors"   -> order_error_rows(merged)]

\* C1: when the load of a table raises after its TRUNCATE and before its final
\* commit, the table holds after the run exactly the rows it held when the run
\* began (its previous committed snapshot).
C1_FailedInsertKeepsSnapshot ==
    \A r \in Runs :
        (pc[r] = "done" /\ failed[r].phase = "insert")
            => db[failed[r].step] = start_db[r][failed[r].step]

\* C1 witness: the load of stock_snapshot failed on an INSERT in a run that
\* found rows of an earlier run in the table and had other rows to write.
C1_Witness ==
    \E r \in Runs :
        /\ pc[r] = "done"
        /\ failed[r].phase = "insert"
        /\ failed[r].step = "stock_snapshot"
        /\ start_db[r]["stock_snapshot"] # <<>>
        /\ start_db[r]["stock_snapshot"] #
              ExpectedTables(retry_enriched, stock_blob, ventes_blob)["stock_snapshot"]

\* C2 as claimed: a run that fails during the load of sales_agg, after a run
\* that returned 200, leaves unified_data as that prior run wrote it.
C2_UnifiedOfPriorRun ==
    \A r \in Runs :
        (pc[r] = "done" /\ failed[r].step = "sales_agg" /\ last_resp = 200)
            => db["unified_data"] = start_db[r]["unified_data"]

\* C2 amended: a run that fails during the load of sales_agg leaves
\* unified_data with the rows this run computed and committed, and sales_agg
\* with the rows it held when the run began.
C2_UnifiedOfFailingRun ==
    \A r \in Runs :
        (pc[r] = "done" /\ failed[r].step = "sales_agg")
            => /\ db["unified_data"] = unified_rows(frames[r].merged_df)
               /\ db["sales_agg"] = start_db[r]["sales_agg"]

\* C2 witness: after a run that returned 200, a run over other sources failed
\* during the load of sales_agg; unified_data is no longer what it was.
C2_Witness ==
    \E r \in Runs :
        /\ pc[r] = "done"
        /\ failed[r].step = "sales_agg"
        /\ last_resp = 200
        /\ start_db[r]["sales_agg"] # <<>>
        /\ db["unified_data"] # start_db[r]["unified_data"]

\* C3 (as claimed): after a run that returns 200, every one of the four
\* tables was truncated and committed in that run and holds exactly the rows
\* computed from the sources of that run.
C3_FullRefresh ==
    \A r \in Runs :
        (pc[r] = "done" /\ resp[r] = 200)
            => /\ rewritten[r] = Tables
               /\ db = ExpectedTables(retry_enriched, stock_blob, ventes_blob)

\* C15 (as claimed): a run over sheets in which a canonical column is left
\* unmapped, and in which nothing outside the pipeline fails, answers 200.
C15_UnmappedStill200 ==
    \A r \in Runs :
        (/\ pc[r] = "done"
         /\ \/ Cleaned("stock", stock_blob).cols # StockTargets
            \/ Cleaned("sales", ventes_blob).cols # SalesTargets
         /\ failed[r].error \notin ExtractErrors \cup {"OperationalError"})
            => resp[r] = 200

\* C16 (as claimed): a run in which an exception was raised answers 500.
C16_EveryExceptionIs500 ==
    \A r \in Runs :
        (pc[r] = "done" /\ failed[r].step # "none") => resp[r] = 500

\* C17 (as claimed): when the response is returned, a connection that was
\* opened has been closed.
C17_ConnectionClosed ==
    \A r \in Runs :
        (pc[r] = "done" /\ conn[r] # "none") => conn[r] = "closed"

\* C18: a run that finds a blob setting missing answers 500 on account of
\* that RuntimeError, and has created, truncated or written none of the four
\* tables: their committed rows are those of before the run.
C18_ConfigErrorTouchesNothing ==
    \A r \in Runs :
        (pc[r] = "done" /\ failed[r].error \in ConfigErrors)
            => /\ resp[r] = 500
               /\ failed[r].step = "extract"
               /\ touched[r] = {}
               /\ rewritten[r] = {}
               /\ pending[r] = NoPending
               /\ db = start_db[r]

\* a run stopped by a missing setting, over sources that changed after a run
\* that had loaded the four tables
C18_Witness ==
    \E r \in Runs :
        /\ pc[r] = "done"
        /\ failed[r].error \in ConfigErrors
        /\ src_changed
        /\ created = Tables
        /\ db["unified_data"] # <<>>
        /\ db # ExpectedTables(retry_enriched, stock_blob, ventes_blob)

\* C20 (as claimed): a successful run that follows a successful run over the
\* same sources leaves the four tables as the run before left them.
C20_SecondRunChangesNothing ==
    \A r \in Runs :
        (pc[r] = "done" /\ resp[r] = 200 /\ last_resp = 200 /\ ~src_changed)
            => db = start_db[r]

(***************************************************************************)
(* Specification of the data path: one invocation on a new database, with  *)
(* no failure, over two families of sources                                *)
(***************************************************************************)
\* the SKU cells of the sources: "a-1" normalizes to A1, "-" to the null SKU
SkuA1 == <<"A", "1">>

SkuA1Raw == <<"a", "-", "1">>

SkuB2 == <<"B", "2">>

SkuDash == <<"-">>

\* stock rows of the priority family: SKU A1 with every combination of a
\* missing, non-positive or positive price, one row of A1 with a negative
\* quantity and one row of SKU B2
PriorityStockRows ==
    {SRow(SkuA1, N(3), pa, pr) :
        pa \in {NA, N(0), N(800)}, pr \in {NA, N(-500), N(1000)}}
    \cup {SRow(SkuA1, N(-1), N(600), N(3000)), SRow(SkuB2, N(2), N(400), NA)}

\* sales sheets of the priority family: one sale of A1 whose price is missing,
\* zero, tax-exclusive or tax-inclusive, or two sales of A1
PrioritySales ==
    {<<VtRow(SkuA1, N(1), wo, NA)>> : wo \in {NA, N(0), N(5000)}}
    \cup {<<VtRow(SkuA1, N(1), NA, N(6000))>>,
          <<VtRow(SkuA1, N(1), N(5000), NA), VtRow(SkuA1, N(2), N(7000), NA)>>,
          <<VtRow(SkuA1, N(1), N(5000), NA), VtRow(SkuA1, N(1), NA, N(8400))>>}

\* the sales sheets that go with every stock sheet of the priority family:
\* no price, a tax-exclusive price, two prices
PriorityMainSales ==
    {<<VtRow(SkuA1, N(1), NA, NA)>>,
     <<VtRow(SkuA1, N(1), N(5000), NA)>>,
     <<VtRow(SkuA1, N(1), N(5000), NA), VtRow(SkuA1, N(1), NA, N(8400))>>}

\* one order of A1 over the stock sheets of at most MaxStockRows rows and the
\* main sales sheets, and over the stock sheets of one row less and every
\* sales sheet
PrioritySources ==
    {Sources(<<VRow(1, SkuA1, N(2), "sale", N(1200), NA)>>,
             StockSheet(StockTargets, st), SalesSheet(SalesTargets, vt)) :
        st \in SeqsUpTo(PriorityStockRows, MaxStockRows), vt \in PriorityMainSales}
    \cup {Sources(<<VRow(1, SkuA1, N(2), "sale", N(1200), NA)>>,
                  StockSheet(StockTargets, st), SalesSheet(SalesTargets, vt)) :
             st \in SeqsUpTo(PriorityStockRows, MaxStockRows - 1), vt \in PrioritySales}

\* retry rows of the merge family, without their id
MergeRetryRows ==
    {VRow(0, k, N(2), "sale", f, NA) : k \in {SkuA1Raw, SkuB2}, f \in {NA, N(1200)}}
    \cup {VRow(0, SkuDash, N(2), "sale", N(1200), NA),
          VRow(0, SkuA1, N(1), "return", N(1200), NA),
          VRow(0, SkuA1, N(0), "sale", NA, N(2400))}

\* the views of the merge family, and one view of two orders, the first of
\* a SKU in stock, the second of a SKU that is not
MergeViews ==
    {[i \in DOMAIN v |-> [v[i] EXCEPT !.id = i]] :
        v \in SeqsUpTo(MergeRetryRows, MaxRetryRows) \ {<<>>}}
    \cup {<<VRow(1, SkuA1Raw, N(2), "sale", N(1200), NA),
            VRow(2, SkuB2, N(2), "sale", N(1200), NA)>>}

MergeStockRows ==
    {SRow(SkuA1, N(3), N(800), pr) : pr \in {NA, N(0)}}
    \cup {SRow(SkuA1Raw, N(1), NA, N(2000)), SRow(SkuDash, N(1), N(800), N(1000))}

MergeSales ==
    {<<VtRow(SkuB2, N(1), NA, N(6000))>>,
     <<VtRow(SkuA1, N(1), N(5000), NA), VtRow(SkuA1, N(1), N(5000), NA)>>}

\* the views of one order of the merge family
MergeSingleViews == {v \in MergeViews : Len(v) = 1}

\* the views of one order over the stock sheets of at most MaxStockRows rows,
\* and every view over the stock sheets of one row less
MergeSources ==
    {Sources(v, StockSheet(StockTargets, st), SalesSheet(SalesTargets, vt)) :
        v \in MergeSingleViews, st \in SeqsUpTo(MergeStockRows, MaxStockRows),
        vt \in MergeSales}
    \cup {Sources(v, StockSheet(StockTargets, st), SalesSheet(SalesTargets, vt)) :
             v \in MergeViews, st \in SeqsUpTo(MergeStockRows, MaxStockRows - 1),
             vt \in MergeSales}

\* sheets of three rows of one SKU, where the median is not the mean
MedianSources ==
    {Sources(<<VRow(1, SkuA1, N(2), "sale", N(1200), NA)>>,
             StockSheet(StockTargets,
                   <<SRow(SkuA1, N(3), N(800), N(1000)),
                     SRow(SkuA1Raw, N(-1), NA, N(1000)),
                     SRow(SkuA1, N(2), N(200), N(4000))>>),
             SalesSheet(SalesTargets,
                   <<VtRow(SkuA1, N(1), N(5000), NA),
                     VtRow(SkuA1, N(2), NA, N(8400)),
                     VtRow(SkuA1, N(1), N(5000), NA)>>))}

\* SKU cells that differ from A1 by spacing only
SkuA1Sp == <<"A", " ", "1">>

\* views of the key family: one sale whose SKU is written in several ways, is
\* empty or has no letter or digit, or one return of A1 with a positive, zero,
\* negative or missing payload quantity
KeyViews ==
    {<<VRow(1, k, N(2), "sale", N(1200), NA)>> :
        k \in {SkuA1, SkuA1Sp, <<" ", "a", "1", " ">>, <<"A">>, SkuDash, <<>>, NanText}}
    \cup {<<VRow(1, SkuA1, q, "return", N(1200), NA)>> : q \in {N(-1), N(0), N(1), NA}}

\* the views of the key family, with one stock row and one sales row whose
\* SKU cell is written in several ways, is empty or holds blanks only
KeySources ==
    {Sources(v, StockSheet(StockTargets, <<SRow(k, N(3), N(800), N(1000))>>),
             SalesSheet(SalesTargets, <<VtRow(kv, N(1), N(5000), NA)>>)) :
        v \in KeyViews,
        k \in {SkuA1Raw, SkuA1Sp, <<" ", "a", "1", " ">>, SkuDash, NaNCell, <<" ">>},
        kv \in {SkuA1Raw, SkuA1Sp}}

\* sales rows of the header family: the SKU A1 with a tax-exclusive price, a
\* tax-inclusive price or both, with or without a quantity
HeaderSalesRows ==
    {VtRow(SkuA1, q, wo, w) :
        q \in {NA, N(2)}, wo \in {NA, N(5000)}, w \in {NA, N(6000)}}

\* the SKU cell "A1 X"
SkuA1X == <<"A", "1", " ", "X">>

\* sales workbooks whose columns get one name twice: the headers of the
\* docstring, or the columns "SKU", "Item Code", "Qty", "Quantity" and
\* "Net without Tax"; and sales workbooks whose only SKU column is headed
\* "SKU" or "sku", which guess_sales_columns leaves unmapped, beside "Qty"
\* and "Net without Tax"
HeaderSales ==
    {DocstringSales(<<row>>) : row \in HeaderSalesRows}
    \cup {Frame(<<h, StandardSalesHeaders[2], NetWithoutTax>>, <<<<a, N(1), N(5000)>>>>) :
             h \in {<<"S", "K", "U">>, TargetText.sku},
             a \in {SkuA1Sp, SkuA1X, SkuA1Raw}}
    \cup {Frame(<<<<"S", "K", "U">>, StandardSalesHeaders[1],
                   StandardSalesHeaders[2], <<"Q", "u", "a", "n", "t", "i", "t", "y">>,
                   NetWithoutTax>>,
                 <<<<a, b, q, N(2), N(5000)>>>>) :
             a \in {NaNCell, SkuA1Sp}, b \in {NaNCell, <<" ">>, SkuA1Sp, SkuB2},
             q \in {NA, N(1)}}

\* the header family: an order of A1, of A or of NA, a stock row of A1 and a
\* sales workbook with duplicate columns or with an unmapped SKU column
HeaderSources ==
    {Sources(<<VRow(1, k, N(2), "sale", NA, NA)>>,
             StockSheet(StockTargets, <<SRow(SkuA1, N(3), N(800), NA)>>), vt) :
        k \in {SkuA1, <<"A">>, <<"N", "A">>}, vt \in HeaderSales}

InitData ==
    /\ \E src \in PrioritySources \cup MergeSources \cup MedianSources
                    \cup KeySources \cup HeaderSources :
          /\ retry_enriched = src.view
          /\ stock_blob = src.stock
          /\ ventes_blob = src.ventes
    /\ InitRun
    /\ NoFin
    /\ NoAux

NextData ==
    \/ Connect(1) /\ UNCHANGED invocations
    \/ ReadRetry(1) \/ ReadVentes(1) \/ ReadStock(1) \/ Clean(1)
    \/ Transform(1)
    \/ LoadPrepare(1) \/ LoadCreate(1) \/ LoadAlter(1) \/ LoadTruncate(1)
    \/ LoadCommit(1) \/ Close(1)

SpecData == InitData /\ [][NextData]_vars

(***************************************************************************)
(* Specification of calculate_financials: the function applied to a frame  *)
(***************************************************************************)
\* a row of a frame given to calculate_financials
FinRow(q, ht, ttc) == [quantity |-> q, retail_value |-> ht, retail_value_ttc |-> ttc]

FinRows ==
    {FinRow(q, ht, ttc) :
        q \in {-1, 0, 2}, ht \in {NA, N(0), N(-500), N(1000)},
        ttc \in {NA, N(100), N(1200)}}

\* the frames: at least one row, with or without a retail_value_ttc column
\* (without it the cells of that column are missing)
FinFrames ==
    {[has_ttc |-> h, rows |-> rs] :
        h \in BOOLEAN, rs \in SeqsUpTo(FinRows, MaxFinRows) \ {<<>>}}

InitFin ==
    /\ retry_enriched = <<>>
    /\ stock_blob = StockSheet(StockTargets, <<>>)
    /\ ventes_blob = SalesSheet(SalesTargets, <<>>)
    /\ InitRun
    /\ fin_df \in FinFrames
    /\ fin_out = <<>>
    /\ NoAux

\* df = calculate_financials(df)
ApplyFinancials ==
    /\ fin_df.rows # <<>>
    /\ fin_out = <<>>
    /\ fin_out' = calculate_financials(fin_df.rows, fin_df.has_ttc)
    /\ UNCHANGED <<auxVars, fin_df, srcVars, dbVars, runVars, histVars>>

NextFin == ApplyFinancials

SpecFin == InitFin /\ [][NextFin]_vars


(***************************************************************************)
(* Specification of the column mappers: a mapper applied to the headers of *)
(* a sheet                                                                 *)
(***************************************************************************)
\* the header rows over a set of headers: at most MaxHeaders headers, no
\* header twice
HeaderRows(H) ==
    {h \in SeqsUpTo(H, MaxHeaders) : \A i, j \in DOMAIN h : i # j => h[i] # h[j]}

InitMap ==
    /\ retry_enriched = <<>>
    /\ stock_blob = StockSheet(StockTargets, <<>>)
    /\ ventes_blob = SalesSheet(SalesTargets, <<>>)
    /\ InitRun
    /\ NoFin
    /\ \/ map_kind = "stock" /\ map_headers \in HeaderRows(StockHeaders)
       \/ map_kind = "sales" /\ map_headers \in HeaderRows(SalesHeaders)
    /\ map_out = <<>>
    /\ map_done = FALSE
    /\ NoOrders
    /\ NoOverlap
    /\ NoStaging

\* main line 591: stock_map = guess_stock_columns(stock_df)
GuessStock ==
    /\ map_kind = "stock"
    /\ ~map_done
    /\ map_out' = guess_stock_columns(map_headers)
    /\ map_done' = TRUE
    /\ UNCHANGED <<map_kind, map_headers, stgVars, ordVars, ovlVars, finVars, srcVars, dbVars, runVars,
                   histVars>>

\* main line 599: sales_map = guess_sales_columns(ventes_df)
GuessSales ==
    /\ map_kind = "sales"
    /\ ~map_done
    /\ map_out' = guess_sales_columns(map_headers)
    /\ map_done' = TRUE
    /\ UNCHANGED <<map_kind, map_headers, stgVars, ordVars, ovlVars, finVars, srcVars, dbVars, runVars,
                   histVars>>

NextMap == GuessStock \/ GuessSales

SpecMap == InitMap /\ [][NextMap]_vars

(***************************************************************************)
(* The retry queue (src/shared.py, create_order, OrdersProcess,            *)
(* send_to_cegid): orders are submitted, the timer runs read the Pending   *)
(* rows and send them to the ERP, a request to send_to_cegid fails when    *)
(* its module is imported.  A row is [external_id, status, retries];       *)
(* payload and error_message are left out.                                 *)
(***************************************************************************)
\* the order numbers of the requests; "UNKNOWN" stands for a request with no
\* orderNumber
OrderNumbers == {"S-1", "S-2"}

\* the requests create_order receives: a body that is not JSON, or a JSON
\* body with or without an orderNumber that passes every check of lines
\* 40-92 or fails one
Requests ==
    {[json |-> FALSE, number |-> "UNKNOWN", valid |-> FALSE],
     [json |-> TRUE, number |-> "UNKNOWN", valid |-> FALSE]}
    \cup {[json |-> TRUE, number |-> n, valid |-> v] : n \in OrderNumbers, v \in BOOLEAN}

\* create_order.main: the external_id and the status it gives to
\* enregistrer_commande
create_order(req) ==
    IF ~req.json THEN [external_id |-> "UNKNOWN", status |-> "Invalid"]
    ELSE [external_id |-> req.number,
          status |-> IF req.valid THEN "Pending" ELSE "Invalid"]

\* mutant of enregistrer_commande: ON CONFLICT (external_id) DO UPDATE
enregistrer_commande_upsert(table, ext, status) ==
    IF \E i \in DOMAIN table : table[i].external_id = ext
    THEN [i \in DOMAIN table |->
            IF table[i].external_id = ext THEN [table[i] EXCEPT !.status = status]
            ELSE table[i]]
    ELSE Append(table, [external_id |-> ext, status |-> status, retries |-> 0])

\* enregistrer_commande: INSERT ... ON CONFLICT (external_id) DO NOTHING
enregistrer_commande(table, ext, status) ==
    IF \E i \in DOMAIN table : table[i].external_id = ext
    THEN table
    ELSE Append(table, [external_id |-> ext, status |-> status, retries |-> 0])

\* mutant of get_pending_orders: the SELECT has no WHERE clause
get_pending_orders_all(table) ==
    [i \in DOMAIN table |->
        [id |-> i, status |-> table[i].status, retries |-> table[i].retries,
         outcome |-> "none"]]

\* get_pending_orders: the rows whose status is Pending.  An entry of the
\* batch keeps the status and the retries read, and the outcome of its send.
get_pending_orders(table) ==
    SelectSeqBy([i \in DOMAIN table |->
                    [id |-> i, status |-> table[i].status,
                     retries |-> table[i].retries, outcome |-> "none"]],
                {i \in DOMAIN table : table[i].status = "Pending"})

\* mutant of update_order_status: a failed order is left Pending to be sent
\* again
update_order_status_requeue(table, id, status) ==
    [table EXCEPT ![id] = [@ EXCEPT !.status = IF status = "Failed" THEN "Pending" ELSE status,
                                    !.retries = @ + 1]]

\* update_order_status: UPDATE retry_table SET status, retries = retries + 1
\* WHERE id
update_order_status(table, id, status) ==
    [table EXCEPT ![id] = [@ EXCEPT !.status = status, !.retries = @ + 1]]

\* the order a flow is at
CurOrder(f) == batch[f][pos[f]]

\* the loop of a flow goes to its next order, or the flow returns
NextOrder(f) ==
    IF pos[f] < Len(batch[f])
    THEN /\ pos' = [pos EXCEPT ![f] = @ + 1]
         /\ flow_pc' = [flow_pc EXCEPT ![f] = "send"]
    ELSE /\ pos' = pos
         /\ flow_pc' = [flow_pc EXCEPT ![f] = "returned"]

\* what a send flow leaves alone
pipeVars == <<srcVars, dbVars, runVars, histVars, finVars, mapVars, ovlVars, stgVars>>

\* create_order.main on one request
Submit ==
    \E req \in Requests :
        /\ retry_table' = enregistrer_commande(retry_table, create_order(req).external_id,
                                               create_order(req).status)
        /\ transmitted' = IF Len(retry_table') > Len(retry_table)
                          THEN Append(transmitted, 0) ELSE transmitted
        /\ UNCHANGED <<flow_pc, batch, pos, pipeVars>>

\* send_to_cegid line 7: the module imports transform_json_to_cegid_format
\* and json_to_soap_xml from shared, which defines neither: ImportError when
\* the function is loaded, main never runs and the request fails
ImportFail(f) ==
    /\ f \notin TimerFlows
    /\ flow_pc[f] = "idle"
    /\ flow_pc' = [flow_pc EXCEPT ![f] = "raised"]
    /\ UNCHANGED <<retry_table, batch, pos, transmitted, pipeVars>>

\* process_pending_orders line 207: the run reads the Pending rows; with none
\* its loop has nothing to do and it returns
Fetch(f) ==
    /\ f \in TimerFlows
    /\ flow_pc[f] = "idle"
    /\ batch' = [batch EXCEPT ![f] = get_pending_orders(retry_table)]
    /\ IF batch'[f] = <<>>
       THEN flow_pc' = [flow_pc EXCEPT ![f] = "returned"] /\ pos' = pos
       ELSE flow_pc' = [flow_pc EXCEPT ![f] = "send"] /\ pos' = [pos EXCEPT ![f] = 1]
    /\ UNCHANGED <<retry_table, transmitted, pipeVars>>

\* get_pending_orders raises: process_pending_orders raises (OrdersProcess
\* logs it)
FetchFail(f) ==
    /\ f \in TimerFlows
    /\ flow_pc[f] = "idle"
    /\ flow_pc' = [flow_pc EXCEPT ![f] = "raised"]
    /\ UNCHANGED <<retry_table, batch, pos, transmitted, pipeVars>>

\* process_pending_orders lines 222-233: the payload is parsed, the order
\* built and sent.  Parsing or building raises (error), Create raises
\* (error), the ERP answers with an empty response (rejected) or with a
\* response (accepted).
Send(f) ==
    /\ flow_pc[f] = "send"
    /\ \E o \in {"error", "rejected", "accepted"} :
          /\ batch' = [batch EXCEPT ![f][pos[f]].outcome = o]
          /\ transmitted' = IF o = "error" THEN transmitted
                            ELSE [transmitted EXCEPT ![CurOrder(f).id] = @ + 1]
          /\ flow_pc' = [flow_pc EXCEPT ![f] = IF o = "error" THEN "handler" ELSE "mark"]
    /\ UNCHANGED <<retry_table, pos, pipeVars>>

\* process_pending_orders lines 235-236 and 253-255: the status of the order
\* is updated after the answer.  The entry of the batch records that
\* process_pending_orders has written Success (outcome "success").
Mark(f) ==
    /\ flow_pc[f] = "mark"
    /\ IF CurOrder(f).outcome = "accepted"
       THEN /\ retry_table' = update_order_status(retry_table, CurOrder(f).id, "Success")
            /\ flow_pc' = [flow_pc EXCEPT ![f] = "invoice"]
            /\ pos' = pos
            /\ batch' = [batch EXCEPT ![f][pos[f]].outcome = "success"]
       ELSE /\ retry_table' = update_order_status(retry_table, CurOrder(f).id, "Failed")
            /\ NextOrder(f)
            /\ batch' = batch
    /\ UNCHANGED <<transmitted, pipeVars>>

\* the update of the status raises inside the try block
MarkFail(f) ==
    /\ flow_pc[f] = "mark"
    /\ flow_pc' = [flow_pc EXCEPT ![f] = "handler"]
    /\ UNCHANGED <<retry_table, batch, pos, transmitted, pipeVars>>

\* process_pending_orders lines 240-251: the invoice is generated, written
\* to /tmp, mailed and uploaded; any of these steps but the mail may raise
Invoice(f) ==
    /\ flow_pc[f] = "invoice"
    /\ \/ NextOrder(f)
       \/ flow_pc' = [flow_pc EXCEPT ![f] = "handler"] /\ pos' = pos
    /\ UNCHANGED <<retry_table, batch, transmitted, pipeVars>>

\* process_pending_orders lines 259-260: the except clause marks the order
\* Failed
Handler(f) ==
    /\ flow_pc[f] = "handler"
    /\ retry_table' = update_order_status(retry_table, CurOrder(f).id, "Failed")
    /\ NextOrder(f)
    /\ UNCHANGED <<batch, transmitted, pipeVars>>

\* the update of the except clause raises: the exception leaves the loop
HandlerFail(f) ==
    /\ flow_pc[f] = "handler"
    /\ flow_pc' = [flow_pc EXCEPT ![f] = "raised"]
    /\ UNCHANGED <<retry_table, batch, pos, transmitted, pipeVars>>

InitOrders ==
    /\ retry_enriched = <<>>
    /\ stock_blob = StockSheet(StockTargets, <<>>)
    /\ ventes_blob = SalesSheet(SalesTargets, <<>>)
    /\ InitRun
    /\ NoFin
    /\ NoAux

NextOrders ==
    \/ Submit
    \/ \E f \in Flows :
          \/ ImportFail(f) \/ Fetch(f) \/ FetchFail(f)
          \/ Send(f) \/ Mark(f) \/ MarkFail(f)
          \/ Invoice(f) \/ Handler(f) \/ HandlerFail(f)

SpecOrders == InitOrders /\ [][NextOrders]_vars

(***************************************************************************)
(* Specification of pipeline invocations that may overlap: two workers run *)
(* main, each invocation may fail at every step, MaxInvocations            *)
(* invocations start in all, and the sources change once, at any time      *)
(***************************************************************************)
VersionSources(v) ==
    Sources(ViewVersion(v), StockSheet(StockTargets, StockVersion(v)),
            SalesSheet(SalesTargets, SalesVersion(v)))

\* the sources the first invocation may find: version 1, or version 1 with a
\* sales workbook that has two columns named sku, with a stock workbook that
\* has no SKU column, or with no retail value in the stock workbook and no SKU
\* column in the sales workbook
OverlapSources ==
    {VersionSources(1),
     Sources(ViewVersion(1), StockSheet(StockTargets, StockVersion(1)),
             TwoSkuSales(SalesVersion(1))),
     Sources(ViewVersion(1), StockSheet(StockTargets \ {"sku"}, StockVersion(1)),
             SalesSheet(SalesTargets, SalesVersion(1))),
     Sources(ViewVersion(1), StockSheet(StockTargets \ {"retail_value"}, StockVersion(1)),
             SalesSheet(SalesTargets \ {"sku"}, SalesVersion(1)))}

InitOverlap ==
    /\ \E src \in OverlapSources :
          /\ retry_enriched = src.view
          /\ stock_blob = src.stock
          /\ ventes_blob = src.ventes
    /\ InitRun
    /\ NoFin
    /\ NoAux

\* the retry queue and the workbooks change, at any time
NewVersion ==
    /\ retry_enriched = VersionSources(1).view
    /\ retry_enriched' = VersionSources(2).view
    /\ stock_blob' = VersionSources(2).stock
    /\ ventes_blob' = VersionSources(2).ventes
    /\ UNCHANGED <<auxVars, finVars, dbVars, runVars, histVars>>

\* the invocations a behaviour of SpecOverlap starts
MaxInvocations == 2

\* the trigger fires, while fewer than MaxInvocations invocations have started
TriggerCounted(r) ==
    /\ invocations < MaxInvocations
    /\ Connect(r) \/ ConnectFail(r)
    /\ invocations' = invocations + 1

NextOverlap ==
    \/ NewVersion
    \/ \E r \in Runs :
          \/ TriggerCounted(r)
          \/ ReadRetry(r) \/ ReadVentes(r) \/ ReadStock(r) \/ ExtractFail(r)
          \/ Clean(r) \/ CleanRaise(r)
          \/ Transform(r) \/ TransformRaise(r)
          \/ LoadSkip(r) \/ LoadPrepare(r) \/ ReadSalesFail(r)
          \/ LoadCreate(r) \/ LoadAlter(r) \/ LoadTruncate(r) \/ LoadCommit(r)
          \/ LoadRaise(r) \/ LoadFail(r)
          \/ Close(r) \/ Return(r)

SpecOverlap == InitOverlap /\ [][NextOverlap]_vars

(***************************************************************************)
(* upsert_staging (SpecStaging).  No function of src/ calls it: the call,  *)
(* its table name and its SKUs come from outside the pipeline, and no      *)
(* pipeline invocation or send flow runs beside it.                        *)
(***************************************************************************)
\* the tables a caller may name: a staging table of its own, or any relation
\* of the database: the four derived tables, the retry queue retry_table and
\* retry_enriched, which the pipeline reads
StagingNames == Tables \cup {"sku_staging", "retry_table", "retry_enriched"}

StagingSkus == {NoSku, <<"A", "1">>, <<"B", "2">>}

MaxStagingSkus == 3

\* how the named relation came to be: it does not exist ("none"),
\* upsert_staging created it ("staging", line 483), the load of the pipeline
\* did ("pipeline", lines 230-243, 345-353, 428-433, 460-465), it is the
\* retry queue that enregistrer_commande fills ("queue", shared.py line 74),
\* or what extract_retry_table selects from, a view or a table of the same
\* columns ("view", "table", line 179)
Schemas(t) ==
    {"none", "staging"}
        \cup (IF t \in Tables THEN {"pipeline"} ELSE {})
        \cup (IF t = "retry_table" THEN {"queue"} ELSE {})
        \cup (IF t = "retry_enriched" THEN {"view", "table"} ELSE {})

\* the columns of table t under a schema
TableColumns(t, schema) ==
    CASE schema \in {"none", "staging"} -> {"sku"}
      [] schema = "queue" ->
           {"id", "external_id", "payload", "status", "error_message", "retries"}
      [] schema \in {"view", "table"} ->
           {"id", "sku", "quantity", "order_type", "final_price_ttc",
            "original_price_ttc"}
      [] schema = "pipeline" /\ t = "unified_data" ->
           {"email", "sku", "quantity", "source", "stock_qty", "purchase_value",
            "retail_value", "total_ht", "tva", "total_ttc", "is_valid", "error_reason"}
      [] schema = "pipeline" /\ t = "sales_agg" ->
           {"sku", "qty_sold", "revenue_ht", "price_ht_from_sales"}
      [] schema = "pipeline" /\ t = "stock_snapshot" ->
           {"sku", "stock_qty", "purchase_value", "retail_value",
            "price_ht_from_sales", "price_ht_priority", "stock_value_ht"}
      [] schema = "pipeline" /\ t = "order_errors" ->
           {"email", "sku", "quantity", "error_reason"}

\* the table takes INSERT INTO t (sku) ... ON CONFLICT (sku): it has a column
\* sku with a unique constraint.  unified_data and order_errors as the
\* pipeline creates them have no such constraint, a table behind
\* retry_enriched has none either, and retry_table has no column sku.
UniqueSku(t, schema) ==
    \/ schema = "staging"
    \/ schema = "pipeline" /\ t \in {"sales_agg", "stock_snapshot"}

\* INSERT INTO t (sku): the columns the statement does not name are NULL
StagingRow(columns, sku) == [c \in columns |-> IF c = "sku" THEN sku ELSE NA]

InitStaging ==
    /\ stock_blob = StockSheet(StockTargets, <<>>)
    /\ ventes_blob = SalesSheet(SalesTargets, <<>>)
    /\ pc = [r \in Runs |-> "idle"]
    /\ conn = [r \in Runs |-> "none"]
    /\ pending = [r \in Runs |-> NoPending]
    /\ cur = [r \in Runs |-> 1]
    /\ frames = [r \in Runs |-> NoFrames]
    /\ resp = [r \in Runs |-> 0]
    /\ start_db = [r \in Runs |-> EmptyDb]
    /\ failed = [r \in Runs |-> NoFailure]
    /\ rewritten = [r \in Runs |-> {}]
    /\ last_resp = 0
    /\ touched = [r \in Runs |-> {}]
    /\ src_changed = FALSE
    /\ NoFin
    /\ NoMap /\ NoOverlap
    /\ flow_pc = [f \in Flows |-> "idle"]
    /\ batch = [f \in Flows |-> <<>>]
    /\ pos = [f \in Flows |-> 0]
    /\ \E t \in StagingNames, skus \in SeqsUpTo(StagingSkus, MaxStagingSkus) :
       \E schema \in Schemas(t), filled \in BOOLEAN :
          /\ staging = [pc |-> "create", table_name |-> t, skus |-> skus,
                        schema |-> schema, pend |-> <<>>]
          /\ created = IF schema = "none" THEN {} ELSE {t}
          /\ db = [x \in Tables \cup {"sku_staging"} |->
                     IF x = t /\ filled /\ schema # "none"
                     THEN <<StagingRow(TableColumns(t, schema), <<"B", "2">>)>>
                     ELSE <<>>]
          \* the queue holds one Pending order, the view the row of that order
          /\ retry_table =
                IF t # "retry_table" \/ ~filled \/ schema = "none" THEN <<>>
                ELSE IF schema = "queue" THEN enregistrer_commande(<<>>, "S-1", "Pending")
                ELSE <<StagingRow({"sku"}, <<"B", "2">>)>>
          /\ transmitted = [i \in DOMAIN retry_table |-> 0]
          /\ retry_enriched =
                IF t # "retry_enriched" \/ ~filled \/ schema = "none" THEN <<>>
                ELSE IF schema = "staging" THEN <<StagingRow({"sku"}, <<"B", "2">>)>>
                ELSE ViewVersion(1)

\* lines 482-484: CREATE TABLE IF NOT EXISTS (sku TEXT PRIMARY KEY),
\* committed; a relation that exists keeps its columns
StagingCreate ==
    /\ staging.pc = "create"
    /\ created' = created \cup {staging.table_name}
    /\ staging' = [staging EXCEPT
                     !.pc = "write",
                     !.schema = IF @ = "none" THEN "staging" ELSE @]
    /\ UNCHANGED <<mapVars, ordVars, ovlVars, finVars, srcVars, db, runVars, histVars>>

\* lines 485-491: TRUNCATE and the INSERTs, not committed yet
StagingWrite ==
    /\ staging.pc = "write"
    /\ staging.schema # "view"
    /\ upsert_staging(staging.skus) = <<>> \/ UniqueSku(staging.table_name, staging.schema)
    /\ staging' = [staging EXCEPT
                     !.pc = "commit",
                     !.pend = LET skus == upsert_staging(staging.skus)
                              IN  [i \in DOMAIN skus |->
                                     StagingRow(TableColumns(staging.table_name,
                                                             staging.schema), skus[i])]]
    /\ UNCHANGED <<mapVars, ordVars, ovlVars, finVars, srcVars, dbVars, runVars, histVars>>

\* line 485 on a view: TRUNCATE raises.  Lines 487-491 on a table that does
\* not take the INSERT ... ON CONFLICT (sku): the statement raises, the
\* TRUNCATE of line 485 is not committed
StagingConflict ==
    /\ staging.pc = "write"
    /\ \/ staging.schema = "view"
       \/ /\ upsert_staging(staging.skus) # <<>>
          /\ ~UniqueSku(staging.table_name, staging.schema)
    /\ staging' = [staging EXCEPT !.pc = "raised"]
    /\ UNCHANGED <<mapVars, ordVars, ovlVars, finVars, srcVars, dbVars, runVars, histVars>>

\* line 492: conn.commit(), the rewrite becomes the committed rows of the
\* table named, the retry queue and the table behind retry_enriched included
StagingCommit ==
    /\ staging.pc = "commit"
    /\ db' = IF staging.table_name \in DOMAIN db
             THEN [db EXCEPT ![staging.table_name] = staging.pend] ELSE db
    /\ retry_table' = IF staging.table_name = "retry_table"
                      THEN staging.pend ELSE retry_table
    /\ retry_enriched' = IF staging.table_name = "retry_enriched"
                         THEN staging.pend ELSE retry_enriched
    /\ staging' = [staging EXCEPT !.pc = "done", !.pend = <<>>]
    /\ UNCHANGED <<mapVars, ovlVars, finVars, stock_blob, ventes_blob, created,
                   flow_pc, batch, pos, transmitted, runVars, histVars>>

\* a statement of upsert_staging raises (connection loss, lock timeout): the
\* exception leaves the function, what the call committed stays and its
\* uncommitted rewrite is never seen
StagingFail ==
    /\ staging.pc \in {"create", "write", "commit"}
    /\ staging' = [staging EXCEPT !.pc = "raised", !.pend = <<>>]
    /\ UNCHANGED <<mapVars, ordVars, ovlVars, finVars, srcVars, dbVars, runVars, histVars>>

NextStaging ==
    StagingCreate \/ StagingWrite \/ StagingConflict \/ StagingCommit \/ StagingFail

SpecStaging == InitStaging /\ [][NextStaging]_vars

(***************************************************************************)
(* Properties of the merge and of the stock snapshot (SpecData)            *)
(***************************************************************************)
\* invocation r has computed merged_df
Transformed(r) ==
    /\ pc[r] \in {"load", "create", "alter", "truncate", "commit", "close", "done"}
    /\ resp[r] # 500

\* the first non-missing, strictly positive cell of a chain, else 0
FirstPositive(chain) ==
    LET ok == {i \in DOMAIN chain : (~chain[i].na) /\ chain[i].v > 0}
    IN  IF ok = {} THEN N(0)
        ELSE chain[CHOOSE i \in ok : \A j \in ok : i <= j]

\* C4 (as claimed): the merged frame has exactly one row per retry order,
\* whatever SKUs repeat in the stock or in the sales sheet.
C4_OneRowPerOrder ==
    \A r \in Runs :
        Transformed(r)
            => \A i \in DOMAIN frames[r].retry_df :
                  Cardinality({j \in DOMAIN frames[r].merged_df :
                                  frames[r].merged_df[j].id = frames[r].retry_df[i].id}) = 1

\* C5: in every stock_snapshot row, price_ht_priority is the first
\* non-missing, strictly positive value among the SKU's median retail_value of
\* the stock sheet, its price_ht_from_sales in sales_agg and its median
\* purchase_value, else 0; the same holds of the three values stored in the
\* row.
C5_PriorityIsFirstPositive ==
    \A r \in Runs :
        "stock_snapshot" \in rewritten[r]
            => \A i \in DOMAIN db["stock_snapshot"] :
                  LET row == db["stock_snapshot"][i]
                      m   == Matches(db["sales_agg"], row.sku)
                      ps  == IF m = <<>> THEN NA ELSE m[1].price_ht_from_sales
                  IN  /\ row.price_ht_priority =
                            FirstPositive(
                              <<agg_median(GroupCells(frames[r].stock_df, "retail_value", row.sku)),
                                ps,
                                agg_median(GroupCells(frames[r].stock_df, "purchase_value", row.sku))>>)
                      /\ row.price_ht_priority =
                            FirstPositive(<<row.retail_value, row.price_ht_from_sales,
                                            row.purchase_value>>)

\* a stored row whose retail_value in the stock sheet is not positive and
\* whose priority price is the sales price
C5_Witness ==
    \E r \in Runs :
        /\ "stock_snapshot" \in rewritten[r]
        /\ \E i \in DOMAIN db["stock_snapshot"] :
              LET row == db["stock_snapshot"][i]
                  rv  == agg_median(GroupCells(frames[r].stock_df, "retail_value", row.sku))
              IN  /\ ~rv.na
                  /\ rv.v < 0
                  /\ row.price_ht_from_sales.v > 0
                  /\ row.price_ht_priority = row.price_ht_from_sales

\* C6 (as claimed): the resolved retail_value of a merged row is never a zero
\* or negative candidate of the chain stock, sales, payload, purchase when a
\* later candidate of the chain is strictly positive.
C6_NoNonPositiveOverPositive ==
    \A r \in Runs :
        Transformed(r)
            => \A i \in DOMAIN frames[r].merged_df :
                  LET row   == frames[r].merged_df[i]
                      chain == <<row.stock_retail, row.retail_from_sales,
                                 row.price_ht_payload, row.purchase_value>>
                  IN  \A a \in DOMAIN chain :
                         ((~chain[a].na) /\ chain[a].v <= 0
                              /\ (\A b \in 1..(a - 1) : chain[b].na)
                              /\ (\E c \in (a + 1)..Len(chain) :
                                    (~chain[c].na) /\ chain[c].v > 0))
                             => row.retail_value # chain[a]

\* C7: in every stock_snapshot row, stock_value_ht is the product of the
\* price_ht_priority and the stock_qty stored in that row.
C7_ValueIsPriorityTimesQty ==
    \A r \in Runs :
        "stock_snapshot" \in rewritten[r]
            => \A i \in DOMAIN db["stock_snapshot"] :
                  LET row == db["stock_snapshot"][i]
                  IN  row.stock_value_ht = mul(row.price_ht_priority, row.stock_qty)

\* a stored row with a positive quantity, whose priority price is not the
\* retail price of the stock sheet
C7_Witness ==
    \E r \in Runs :
        /\ "stock_snapshot" \in rewritten[r]
        /\ \E i \in DOMAIN db["stock_snapshot"] :
              LET row == db["stock_snapshot"][i]
              IN  /\ row.stock_qty.v > 0
                  /\ row.price_ht_priority.v > 0
                  /\ row.price_ht_priority # row.retail_value
                  /\ row.stock_value_ht.v > 0

\* a row of the cleaned stock sheet of invocation r carries the key sku
KeyInStock(r, sku) ==
    \E j \in DOMAIN frames[r].stock_df.rows : frames[r].stock_df.rows[j].sku = sku

\* C10 (as claimed): for every merged row, is_valid_sku is true exactly when
\* the normalized SKU of the row is a SKU of the cleaned stock sheet (a null
\* SKU is no SKU), whatever price the sales sheet or the payload gave.
C10_ValidSkuIffInStock ==
    \A r \in Runs :
        Transformed(r)
            => \A i \in DOMAIN frames[r].merged_df :
                  LET row == frames[r].merged_df[i]
                  IN  row.is_valid_sku <=> (row.sku # NoSku /\ KeyInStock(r, row.sku))

\* what the merge does guarantee: is_valid_sku is true exactly when a stock
\* row carries the key of the row, the null key included, whatever price the
\* sales sheet or the payload gave
ValidSkuIffKeyInStock ==
    \A r \in Runs :
        Transformed(r)
            => \A i \in DOMAIN frames[r].merged_df :
                  frames[r].merged_df[i].is_valid_sku
                     <=> KeyInStock(r, frames[r].merged_df[i].sku)

\* C11: for every merged row, is_valid_qty = (quantity > 0), is_valid =
\* is_valid_sku and is_valid_qty, error_reason is "Invalid SKU" whenever
\* is_valid_sku is false, "Invalid Quantity" when only the quantity is
\* invalid, and None exactly when is_valid is true; the committed unified_data
\* rows carry the same is_valid and error_reason.
C11_ValidityFlags ==
    \A r \in Runs :
        Transformed(r)
            => \A i \in DOMAIN frames[r].merged_df :
                  LET row == frames[r].merged_df[i]
                  IN  /\ row.is_valid_qty = (row.quantity > 0)
                      /\ row.is_valid = (row.is_valid_sku /\ row.is_valid_qty)
                      /\ ~row.is_valid_sku => row.error_reason = "Invalid SKU"
                      /\ (row.is_valid_sku /\ ~row.is_valid_qty)
                            => row.error_reason = "Invalid Quantity"
                      /\ (row.error_reason = "None") = row.is_valid
                      /\ "unified_data" \in rewritten[r]
                            => /\ db["unified_data"][i].is_valid = row.is_valid
                               /\ db["unified_data"][i].error_reason = row.error_reason

\* a committed unified row whose SKU and quantity are both invalid
C11_Witness ==
    \E r \in Runs :
        /\ Transformed(r)
        /\ "unified_data" \in rewritten[r]
        /\ \E i \in DOMAIN frames[r].merged_df :
              /\ ~frames[r].merged_df[i].is_valid_sku
              /\ frames[r].merged_df[i].quantity <= 0
              /\ db["unified_data"][i].error_reason = "Invalid SKU"

\* the cells of a quantity column with the missing and the negative ones as 0
ClampedCells(cells) ==
    [i \in DOMAIN cells |-> IF cells[i].na \/ cells[i].v < 0 THEN N(0) ELSE cells[i]]

\* the value of a price cell when it is present and positive, else 0
PositiveOrZero(c) == IF c.na \/ c.v <= 0 THEN N(0) ELSE c

\* the non-null SKUs of the cleaned stock sheet of invocation r
StockSkus(r) == {frames[r].stock_df.rows[j].sku : j \in DOMAIN frames[r].stock_df.rows} \ {NoSku}

\* stock_snapshot holds exactly one row per non-null SKU of the stock sheet
OneRowPerStockSku(r) ==
    /\ {db["stock_snapshot"][i].sku : i \in DOMAIN db["stock_snapshot"]} = StockSkus(r)
    /\ Len(db["stock_snapshot"]) = Cardinality(StockSkus(r))

\* C12 (as claimed): stock_snapshot has one row per distinct non-null SKU,
\* with stock_qty the sum of the stock_qty of the stock rows of that SKU and
\* purchase_value and retail_value their medians (0 when there is none).
C12_SumAndMedian ==
    \A r \in Runs :
        "stock_snapshot" \in rewritten[r]
            => /\ OneRowPerStockSku(r)
               /\ \A i \in DOMAIN db["stock_snapshot"] :
                     LET row == db["stock_snapshot"][i]
                         st  == frames[r].stock_df
                     IN  /\ row.stock_qty = agg_sum(GroupCells(st, "stock_qty", row.sku))
                         /\ row.purchase_value =
                               fillna(agg_median(GroupCells(st, "purchase_value", row.sku)), N(0))
                         /\ row.retail_value =
                               fillna(agg_median(GroupCells(st, "retail_value", row.sku)), N(0))

\* C12 (amended): stock_snapshot has one row per distinct non-null SKU;
\* stock_qty is the sum over the stock rows of that SKU of their stock_qty
\* with a missing or negative quantity counted as 0; purchase_value and
\* retail_value are the medians over those rows when the median is strictly
\* positive, else 0.
C12_ClampedSumAndPositiveMedian ==
    \A r \in Runs :
        "stock_snapshot" \in rewritten[r]
            => /\ OneRowPerStockSku(r)
               /\ \A i \in DOMAIN db["stock_snapshot"] :
                     LET row == db["stock_snapshot"][i]
                         st  == frames[r].stock_df
                     IN  /\ row.stock_qty =
                               agg_sum(ClampedCells(GroupCells(st, "stock_qty", row.sku)))
                         /\ row.purchase_value =
                               PositiveOrZero(agg_median(GroupCells(st, "purchase_value", row.sku)))
                         /\ row.retail_value =
                               PositiveOrZero(agg_median(GroupCells(st, "retail_value", row.sku)))

\* a stored row aggregated from three stock rows, one of a negative quantity,
\* whose retail median is not the mean
C12_Witness ==
    \E r \in Runs :
        /\ "stock_snapshot" \in rewritten[r]
        /\ \E i \in DOMAIN db["stock_snapshot"] :
              LET row == db["stock_snapshot"][i]
                  st  == frames[r].stock_df
              IN  /\ Len(GroupCells(st, "stock_qty", row.sku)) = 3
                  /\ row.stock_qty # agg_sum(GroupCells(st, "stock_qty", row.sku))
                  /\ row.stock_qty.v > 0
                  /\ row.retail_value.v > 0
                  /\ mul(N(3), row.retail_value) # agg_sum(GroupCells(st, "retail_value", row.sku))

\* the median over the sales rows of SKU k of the per-row tax-exclusive price
\* (net_wo_tax when present, else net_w_tax / 1.20)
MedianRowPrice(ventes, k) ==
    LET m == Matches(ventes.rows, k)
    IN  agg_median([i \in DOMAIN m |-> price_ht_row(m[i])])

\* C13 (as claimed): for every SKU of the sales sheet, the price main uses
\* (retail_from_sales) and the price stored in sales_agg.price_ht_from_sales
\* are both the median over the SKU's sales rows of the per-row price.
C13_OneSalesPrice ==
    \A r \in Runs :
        (Transformed(r) /\ "sales_agg" \in rewritten[r])
            => \A k \in {frames[r].ventes_df.rows[j].sku :
                            j \in DOMAIN frames[r].ventes_df.rows} \ {NoSku} :
                  LET sp == Matches(sales_price(frames[r].ventes_df), k)
                      sa == Matches(db["sales_agg"], k)
                  IN  /\ Len(sp) = 1
                      /\ Len(sa) = 1
                      /\ sa[1].price_ht_from_sales = MedianRowPrice(frames[r].ventes_df, k)
                      /\ sp[1].retail_from_sales = MedianRowPrice(frames[r].ventes_df, k)

\* C14: after a successful run, order_errors holds, in order, one row for
\* each unified_data row that is not valid or whose quantity is <= 0, and no
\* other row; each of its rows carries "Invalid SKU" or "Invalid Quantity".
C14_ErrorsAreInvalidRows ==
    \A r \in Runs :
        (pc[r] = "done" /\ resp[r] = 200)
            => LET u   == db["unified_data"]
                   bad == {i \in DOMAIN u : (~u[i].is_valid) \/ u[i].quantity <= 0}
                   sel == SelectSeqBy(u, bad)
                   oe  == db["order_errors"]
               IN  /\ Len(oe) = Cardinality(bad)
                   /\ \A j \in DOMAIN oe :
                         /\ oe[j].sku = sel[j].sku
                         /\ oe[j].quantity = sel[j].quantity
                         /\ oe[j].error_reason = sel[j].error_reason
                         /\ oe[j].error_reason \in {"Invalid SKU", "Invalid Quantity"}

\* a successful run of two orders, one valid and absent from order_errors, one
\* of an unknown SKU and present in it
C14_Witness ==
    \E r \in Runs :
        /\ pc[r] = "done"
        /\ resp[r] = 200
        /\ \E i \in DOMAIN db["unified_data"] :
              db["unified_data"][i].is_valid /\ db["unified_data"][i].quantity > 0
        /\ Len(db["order_errors"]) = 1
        /\ db["order_errors"][1].error_reason = "Invalid SKU"
        /\ db["order_errors"][1].quantity > 0

\* the letters and digits of a SKU cell, letters in upper case: two cells
\* differ only by punctuation, spacing or letter case when these are equal
RECURSIVE Folded(_)
Folded(s) ==
    IF s = <<>> THEN <<>>
    ELSE LET c == upper(Head(s))
         IN  (IF IsKept(c) THEN <<c>> ELSE <<>>) \o Folded(Tail(s))

\* the text of a sheet cell up to its first inner space
FirstTokenOf(s) == FirstWord(lstrip(s))

\* the column names of a workbook once renamed and cleaned
NamesOf(kind, sheet) == MapSeq(column_name, rename_columns(kind, Headers(sheet)))

\* the cells of the rows in the first of the columns named t, missing when
\* no column has that name
CellsOf(names, rows, t) ==
    LET at == {i \in DOMAIN names : names[i] = TargetText[t]}
        first == CHOOSE i \in at : \A k \in at : i <= k
        cell(row) == IF at = {} THEN (IF t = "sku" THEN NaNCell ELSE NA) ELSE row[first]
    IN  MapSeq(cell, rows)

\* the cell of row j of a workbook in its first column named t
CellOf(kind, sheet, j, t) == CellsOf(NamesOf(kind, sheet), Rows(sheet), t)[j]

\* one column has the name sku
OneSkuColumn(names) ==
    Cardinality({i \in DOMAIN names : names[i] = TargetText.sku}) = 1

\* the retry order of view row i is joined with stock row j and, when the
\* sales sheet has a row of the same key, carries the sales price of that key
JoinedWithStock(r, i, j) ==
    /\ frames[r].retry_df[i].sku = frames[r].stock_df.rows[j].sku
    /\ \A m \in DOMAIN frames[r].merged_df :
          frames[r].merged_df[m].id = retry_enriched[i].id
             => frames[r].merged_df[m].merge_stock = "both"

JoinedWithSales(r, i, j) ==
    /\ frames[r].retry_df[i].sku = frames[r].ventes_df.rows[j].sku
    /\ \A m \in DOMAIN frames[r].merged_df :
          frames[r].merged_df[m].id = retry_enriched[i].id
             => ~frames[r].merged_df[m].retail_from_sales.na

\* invocation r has just merged its frames (lines 623-683)
Merged(r) == pc[r] = "load" /\ cur[r] = 1

\* C21 (as claimed): a retry SKU and a stock or sales SKU cell that have the
\* same letters and digits (they differ only by punctuation, spacing or
\* letter case) get the same join key, and the retry row matches that row
\* in the merge.
C21_SameKeyJoins ==
    \A r \in Runs :
        Merged(r)
            => LET stock_names == NamesOf("stock", stock_blob)
                   sales_names == NamesOf("sales", ventes_blob)
                   stock_sku == CellsOf(stock_names, Rows(stock_blob), "sku")
                   sales_sku == CellsOf(sales_names, Rows(ventes_blob), "sku")
                   sales_wo  == CellsOf(sales_names, Rows(ventes_blob), "net_wo_tax")
               IN  \A i \in DOMAIN retry_enriched :
                      /\ \A j \in DOMAIN stock_sku :
                            (Folded(retry_enriched[i].sku) # <<>>
                             /\ Folded(retry_enriched[i].sku) = Folded(stock_sku[j]))
                                => JoinedWithStock(r, i, j)
                      /\ \A j \in DOMAIN sales_sku :
                            (Folded(retry_enriched[i].sku) # <<>>
                             /\ Folded(retry_enriched[i].sku) = Folded(sales_sku[j])
                             /\ ~sales_wo[j].na)
                                => JoinedWithSales(r, i, j)

\* a column of the workbook has the name sku when lines 608-613 test it: the
\* mapper renamed it, or its header is "sku" as written
NamedSkuBeforeCleaning(kind, sheet) ==
    \E i \in DOMAIN Headers(sheet) :
        rename_columns(kind, Headers(sheet))[i] = TargetText.sku

\* the part of a SKU cell of the workbook that makes its key: the first
\* token when the column had the name sku before the cleaning, the whole
\* cell when only the cleaning gave it that name (header "SKU")
KeyTextOf(kind, sheet, cell) ==
    IF NamedSkuBeforeCleaning(kind, sheet) THEN FirstTokenOf(cell) ELSE cell

\* C21: when the sheet has one column named sku, a retry SKU and the key text
\* of a stock or sales SKU cell (its first whitespace-separated token, or the
\* whole cell when the column was not named sku before the cleaning) that
\* have the same letters and digits get the same join key, and the retry row
\* matches that row in the merge.
C21_SameKeyAsFirstToken ==
    \A r \in Runs :
        Merged(r)
            => LET stock_names == NamesOf("stock", stock_blob)
                   sales_names == NamesOf("sales", ventes_blob)
                   stock_sku == CellsOf(stock_names, Rows(stock_blob), "sku")
                   sales_sku == CellsOf(sales_names, Rows(ventes_blob), "sku")
                   sales_wo  == CellsOf(sales_names, Rows(ventes_blob), "net_wo_tax")
                   stock_one == OneSkuColumn(stock_names)
                   sales_one == OneSkuColumn(sales_names)
               IN  \A i \in DOMAIN retry_enriched :
                      /\ \A j \in DOMAIN stock_sku :
                            (stock_one
                             /\ Folded(retry_enriched[i].sku) # <<>>
                             /\ Folded(retry_enriched[i].sku)
                                   = Folded(KeyTextOf("stock", stock_blob, stock_sku[j])))
                                => JoinedWithStock(r, i, j)
                      /\ \A j \in DOMAIN sales_sku :
                            (sales_one
                             /\ Folded(retry_enriched[i].sku) # <<>>
                             /\ Folded(retry_enriched[i].sku)
                                   = Folded(KeyTextOf("sales", ventes_blob, sales_sku[j]))
                             /\ ~sales_wo[j].na)
                                => JoinedWithSales(r, i, j)

\* a retry order written "A 1" joined with the stock row written "a-1" and
\* with the sales row written "a-1"
C21_Witness ==
    \E r \in Runs :
        /\ Transformed(r)
        /\ retry_enriched # <<>>
        /\ Rows(stock_blob) # <<>>
        /\ Rows(ventes_blob) # <<>>
        /\ retry_enriched[1].sku = SkuA1Sp
        /\ CellOf("stock", stock_blob, 1, "sku") = SkuA1Raw
        /\ CellOf("sales", ventes_blob, 1, "sku") = SkuA1Raw
        /\ frames[r].merged_df[1].merge_stock = "both"
        /\ frames[r].merged_df[1].retail_from_sales = N(5000)

\* C23 (as claimed): after a successful run, every order of type return is
\* flagged is_valid_qty = FALSE and is_valid = FALSE, whatever quantity its
\* payload holds, its unified_data row is not valid and order_errors has a
\* row for it.
C23_ReturnsAlwaysInvalid ==
    \A r \in Runs :
        (pc[r] = "done" /\ resp[r] = 200)
            => \A i \in DOMAIN retry_enriched :
                  retry_enriched[i].order_type = "return"
                     => \A m \in DOMAIN frames[r].merged_df :
                           frames[r].merged_df[m].id = retry_enriched[i].id
                              => /\ ~frames[r].merged_df[m].is_valid_qty
                                 /\ ~frames[r].merged_df[m].is_valid
                                 /\ ~db["unified_data"][m].is_valid
                                 /\ \E e \in DOMAIN db["order_errors"] :
                                       /\ db["order_errors"][e].sku
                                             = frames[r].merged_df[m].sku
                                       /\ db["order_errors"][e].quantity
                                             = frames[r].merged_df[m].quantity

\* C30 (as claimed): a retry order whose SKU has no letter and no digit (its
\* normalized SKU is null) is never flagged is_valid_sku = TRUE, whatever the
\* stock sheet holds.
C30_NullSkuNeverValid ==
    \A r \in Runs :
        Transformed(r)
            => \A i \in DOMAIN retry_enriched :
                  Folded(retry_enriched[i].sku) = <<>>
                     => \A m \in DOMAIN frames[r].merged_df :
                           frames[r].merged_df[m].id = retry_enriched[i].id
                              => ~frames[r].merged_df[m].is_valid_sku

\* C19 (as claimed): in every committed row of the four tables each numeric
\* column holds a number, never a missing value or NaN, and each boolean
\* column holds TRUE or FALSE.
C19_NoMissingNumber ==
    /\ \A i \in DOMAIN db["unified_data"] :
          LET row == db["unified_data"][i]
          IN  /\ row.quantity \in Int
              /\ \A c \in {"stock_qty", "purchase_value", "retail_value",
                           "total_ht", "tva", "total_ttc"} : ~row[c].na
              /\ row.is_valid \in BOOLEAN
    /\ \A i \in DOMAIN db["sales_agg"] :
          LET row == db["sales_agg"][i]
          IN  /\ ~row.qty_sold.na
              /\ ~row.revenue_ht.na
              /\ ~row.price_ht_from_sales.na
    /\ \A i \in DOMAIN db["stock_snapshot"] :
          \A c \in {"stock_qty", "purchase_value", "retail_value", "price_ht_from_sales",
                    "price_ht_priority", "stock_value_ht"} :
             ~db["stock_snapshot"][i][c].na
    /\ \A i \in DOMAIN db["order_errors"] : db["order_errors"][i].quantity \in Int

(***************************************************************************)
(* Properties of calculate_financials (SpecFin)                            *)
(***************************************************************************)
\* C8: a row whose retail_value is resolved (not missing, not zero) has
\* total_ht = quantity * retail_value, tva = 20% of total_ht and
\* total_ttc = total_ht + tva, for negative quantities too.
C8_ForwardFinancials ==
    \A i \in DOMAIN fin_out :
        LET row == fin_out[i]
        IN  ((~row.retail_value.na) /\ row.retail_value.v # 0)
                => /\ row.total_ht = mul(N(row.quantity), row.retail_value)
                   /\ mul(row.tva, N(100)) = mul(row.total_ht, N(20))
                   /\ row.total_ttc = add(row.total_ht, row.tva)

\* a return priced tax-exclusive, in a frame that has a tax-inclusive column
\* and a row without a tax-exclusive price
C8_Witness ==
    /\ fin_df.has_ttc
    /\ \E i \in DOMAIN fin_out :
          /\ fin_out[i].quantity < 0
          /\ ~fin_out[i].retail_value.na
          /\ fin_out[i].retail_value.v > 0
          /\ ~fin_out[i].retail_value_ttc.na
          /\ fin_out[i].total_ttc.v < 0
    /\ \E i \in DOMAIN fin_out : fin_out[i].retail_value.na

\* C9 (as claimed): a row with no tax-exclusive price and a tax-inclusive
\* unit price has total_ttc = quantity * retail_value_ttc, tva = total_ttc *
\* 0.20 / 1.20 and total_ht = total_ttc - tva, whatever the other rows of the
\* frame hold.
C9_InvertedPerRow ==
    \A i \in DOMAIN fin_out :
        LET row == fin_out[i]
        IN  (row.retail_value.na /\ fin_df.has_ttc /\ ~row.retail_value_ttc.na)
                => /\ row.total_ttc = mul(N(row.quantity), row.retail_value_ttc)
                   /\ mul(row.tva, N(120)) = mul(row.total_ttc, N(20))
                   /\ row.total_ht = sub(row.total_ttc, row.tva)


(***************************************************************************)
(* Properties of the column mappers (SpecMap)                              *)
(***************************************************************************)
\* C22 (as claimed): guess_sales_columns maps "Item Code", "Qty",
\* "Net w/o Tax" and "Net w/Tax" to sku, quantity, net_wo_tax and net_w_tax;
\* the tax-exclusive and the tax-inclusive header get different names.
C22_StandardSalesHeaders ==
    (map_done /\ map_kind = "sales" /\ map_headers = StandardSalesHeaders)
        => /\ map_out = <<"sku", "quantity", "net_wo_tax", "net_w_tax">>
           /\ map_out[3] # map_out[4]

\* the keyword rule of the mapper of a sheet
RuleOf(kind, t, c) == IF kind = "stock" THEN StockRule(t, c) ELSE SalesRule(t, c)

\* C25 (as claimed): the mapper gives every canonical target to at most one
\* header, the first in header order whose canonical form satisfies the rule
\* of the target, whatever other rules that header or the others satisfy.
C25_FirstMatchPerTarget ==
    map_done
        => \A t \in TargetsOf(map_kind) :
              LET sat  == {i \in DOMAIN map_headers :
                              RuleOf(map_kind, t, canon(map_headers[i]))}
                  cols == {i \in DOMAIN map_out : map_out[i] = t}
              IN  cols = IF sat = {} THEN {}
                         ELSE {CHOOSE i \in sat : \A j \in sat : i <= j}


(***************************************************************************)
(* Properties of the retry queue (SpecOrders)                              *)
(***************************************************************************)
\* the row of id i changes in this step
RowChanges(i) == i \in DOMAIN retry_table /\ retry_table'[i] # retry_table[i]

\* a send flow is at the order of id i, which it read as Pending
AtPendingOrder(i) ==
    \E f \in Flows :
        /\ flow_pc[f] \in {"mark", "handler"}
        /\ CurOrder(f).id = i
        /\ CurOrder(f).status = "Pending"

\* C24: in every step, no row of retry_table is deleted, a new row has the
\* status Pending or Invalid, every status is one of Pending, Invalid, Sent,
\* Success, Failed, and a row that changes is the current order of a send
\* flow that read it as Pending and gets the status Sent, Success or Failed.
C24_Lifecycle ==
    [][ /\ Len(retry_table') >= Len(retry_table)
        /\ \A i \in DOMAIN retry_table' :
              /\ retry_table'[i].status \in {"Pending", "Invalid", "Sent", "Success", "Failed"}
              /\ i \notin DOMAIN retry_table
                    => retry_table'[i].status \in {"Pending", "Invalid"}
              /\ RowChanges(i)
                    => /\ retry_table'[i].external_id = retry_table[i].external_id
                       /\ retry_table'[i].status \in {"Sent", "Success", "Failed"}
                       /\ AtPendingOrder(i) ]_vars

\* the queue holds an Invalid row no flow touched, a row a timer run marked
\* Success and a row another timer run marked Failed after it, and the
\* request to send_to_cegid has failed
C24_Witness ==
    /\ \E i \in DOMAIN retry_table :
          retry_table[i].status = "Invalid" /\ retry_table[i].retries = 0
    /\ \E i \in DOMAIN retry_table : retry_table[i].status = "Success"
    /\ \E i \in DOMAIN retry_table :
          retry_table[i].status = "Failed" /\ retry_table[i].retries > 1
    /\ \E f \in Flows \ TimerFlows : flow_pc[f] = "raised"

\* the run of flow f ends in this step
Ends(f) ==
    /\ flow_pc[f] \notin {"returned", "raised"}
    /\ flow_pc'[f] \in {"returned", "raised"}

\* C27 (as claimed): when a run of process_pending_orders ends, every order
\* of its batch for which the ERP returned a response and the run wrote
\* Success has the status Success and the retries read plus one, whatever
\* happened to the invoice afterwards.
C27_ResponseMeansSuccess ==
    [][ \A f \in TimerFlows :
          Ends(f) => \A k \in DOMAIN batch'[f] :
                        batch'[f][k].outcome = "success"
                           => /\ retry_table'[batch'[f][k].id].status = "Success"
                              /\ retry_table'[batch'[f][k].id].retries
                                    = batch'[f][k].retries + 1 ]_vars

\* C28 (as claimed): no order is transmitted to the ERP more than once,
\* whatever flows overlap.
C28_TransmittedAtMostOnce ==
    \A i \in DOMAIN transmitted : transmitted[i] <= 1

\* C29: when process_pending_orders returns, every order of its batch has
\* been processed and has the status Success or Failed, also after a failure
\* on an order before it in the batch.
C29_BatchFullyProcessed ==
    [][ \A f \in TimerFlows :
          Ends(f) /\ flow_pc'[f] = "returned"
             => \A k \in DOMAIN batch'[f] :
                   /\ batch'[f][k].outcome # "none"
                   /\ retry_table'[batch'[f][k].id].status \in {"Success", "Failed"} ]_vars

\* a timer run has returned from a batch of two orders: the send of the first
\* raised and the except clause marked it Failed, the second was sent after
\* it and marked Success
C29_Witness ==
    \E f \in TimerFlows :
        /\ flow_pc[f] = "returned"
        /\ Len(batch[f]) = 2
        /\ batch[f][1].outcome = "error"
        /\ retry_table[batch[f][1].id].status = "Failed"
        /\ batch[f][2].outcome = "success"
        /\ retry_table[batch[f][2].id].status = "Success"

(***************************************************************************)
(* Properties of overlapping invocations (SpecOverlap)                     *)
(***************************************************************************)
\* no invocation is between its connection and its response
Quiet == \A r \in Runs : pc[r] \in {"idle", "done"}

\* table t holds the rows invocation r computed from the sources it read
HoldsRowsOf(r, t) == db[t] = rows_to_load(r, t)

\* C26 (as claimed): when no invocation has started while another was
\* running, and none is running, the four derived tables were all committed by
\* the invocation that last answered 200, and hold the rows it computed.
C26_SerializedRunsAgree ==
    ~overlapped /\ Quiet /\ last_done # 0
        => /\ \A t \in Tables : writer[t] = last_done
           /\ pc[last_done] = "done" => \A t \in Tables : HoldsRowsOf(last_done, t)

\* C26 (amended): when no invocation has started while another was running,
\* and none is running, every table the invocation that last answered has
\* committed was last committed by it and holds the rows it computed, every
\* other table holds what it held when that invocation connected, and an
\* invocation that answered 200 has committed the four tables.
C26_SerializedRunsFromLastEnded ==
    ~overlapped /\ Quiet /\ last_end # 0 /\ pc[last_end] = "done"
        => /\ \A t \in rewritten[last_end] :
                 writer[t] = last_end /\ HoldsRowsOf(last_end, t)
           /\ \A t \in Tables \ rewritten[last_end] : db[t] = start_db[last_end][t]
           /\ resp[last_end] = 200 => rewritten[last_end] = Tables

\* two invocations that overlapped have both answered 200, and unified_data
\* holds the rows of one while sales_agg or stock_snapshot holds the rows of
\* the other, which read other sources
C26_Witness ==
    /\ overlapped
    /\ \A r \in Runs : pc[r] = "done" /\ resp[r] = 200
    /\ \E a \in Runs : \E b \in Runs \ {a} : \E t \in {"sales_agg", "stock_snapshot"} :
          /\ writer["unified_data"] = a
          /\ writer[t] = b
          /\ HoldsRowsOf(a, "unified_data") /\ ~HoldsRowsOf(b, "unified_data")
          /\ db[t] # <<>>
          /\ (t = "sales_agg" => HoldsRowsOf(b, t) /\ ~HoldsRowsOf(a, t))

=============================================================================
